---- MODULE Spec2Model ----
(***************************************************************************)
(* A model of plexdb (src/plex_db_merge.py, src/app.py): the recovery-and- *)
(* merge engine and its web front end.  The module holds one state machine *)
(* per component:                                                          *)
(*   SpecImport   _import_sql_skipping_errors (statement-skipping import)  *)
(*   SpecNK       merge_watch_history_and_settings (natural-key merge)     *)
(*   SpecItems    merge_new_library_items (dependency-ordered importer)    *)
(*   SpecMerge    run_merge with recover_db (orchestrator, full merge)     *)
(*   SpecPreview  preview_merge with recover_db (orchestrator, preview)    *)
(*   SpecApp      the web front end (src/app.py): /run, /compare and the   *)
(*                threads they start                                       *)
(* Every specification leaves the other components' variables idle.        *)
(***************************************************************************)
EXTENDS Integers, Sequences, FiniteSets, TLC

VARIABLES
  \* ---- _import_sql_skipping_errors
  script,        \* the lines of the SQL file (input), each a sequence of characters
  pyMulti,       \* the exception the sqlite3 module raises for several statements in one text
  pos,           \* index of the next line the for loop reads
  buffer,        \* "".join(buffer): the text of the unterminated statement
  in_single,     \* the importer's in_single flag
  in_double,     \* the importer's in_double flag
  executed,      \* statements executed
  skipped,       \* statements skipped
  ipc,           \* "reading" | "done" | "failed" (OSError) | "raised" (uncaught exception)
  iresult,       \* the boolean the importer returned
  execLog,       \* history: every text handed to conn.execute, with the line it ended at
  \* ---- the three databases, as far as the merge reads and writes them
  oldMeta,       \* old.metadata_items: [exists, rows], a row [id, section, parent, guid]
  oldSections,   \* old.library_sections: the set of ids
  newMeta,       \* new.metadata_items: [exists, rows]
  newViews,      \* new.metadata_item_views: [exists, rows], rows in fetchall() order
  newSettings,   \* new.metadata_item_settings: [exists, rows]
  outMeta,       \* output.metadata_items: rows [id, section, parent, guid, src]
  outViews,      \* output.metadata_item_views: [exists, rows], a row [id, acct, guid, at]
  outSettings,   \* output.metadata_item_settings: [exists, rows], a row [id, acct, guid, val]
  outMedia,      \* output's media tables: [media_items, media_parts, media_streams], the
                 \* rows [id, meta, src], [id, media, src] and [id, media, part, src]
  viewsUnique,   \* output's metadata_item_views declares UNIQUE over the inserted columns
  settingsUnique,\* output's metadata_item_settings declares UNIQUE(account_id, guid)
  \* ---- merge_watch_history_and_settings
  nkRuns,        \* how many times the natural-key merge has been applied to output
  views_added,   \* the views_added the last application returned
  settings_added,\* the settings_added the last application returned
  \* ---- merge_new_library_items
  tpc,           \* "start" | "for" | "finish" | "done" | "raised" (a database error left it)
  to_add,        \* the candidate rows, in fetchall() order
  new_meta_id_to_old, \* new id -> the id assigned in output
  added,         \* the set "added" of new ids
  progress,      \* progress of the current pass
  ti,            \* index of the for loop in to_add
  preIds,        \* history: the ids of output.metadata_items before the import
  meta_added,    \* the value merge_new_library_items returned
  order_run,     \* history: [n, taken, skipped], the run of the import on the same items
                 \* stored in another order, and what the run before it did
  \* ---- run_merge, preview_merge and recover_db
  pc,            \* where run_merge / preview_merge stands; "done" when the call has ended
  files,         \* the file system: path -> content, "none" for no file
  files0,        \* history: the file system when the call began
  nextTmp,       \* how many temporary names tempfile has handed out, plus one
  dbTemps,       \* history: the names mkstemp(suffix=".db") returned
  recovered_old_path, \* the local of that name, "" for None
  recovered_path,     \* the local of that name, "" for None
  old_conn,      \* [path, open], path "" for None
  new_conn,
  out_conn,
  recover,       \* the option recover
  merge_new_items,    \* the option merge_new_items
  output_path,   \* the file output_path names
  canOpen,       \* the original contents sqlite3.connect can open read-only
  canQuery,      \* the original contents whose tables a query can read
  ok,            \* the success flag of the result
  raised,        \* the call ended by raising instead of returning
  rpc,           \* where recover_db stands, "idle" outside it
  r_path,        \* recover_db's path
  r_out,         \* recover_db's out_path
  sql_path,      \* recover_db's sql_path
  r_after,       \* the caller's position after recover_db
  r_ret,         \* what recover_db returned
  r_build,       \* history: how the rebuild of lines 465-488 ended in the last recover_db call
  stats,         \* preview_merge's stats dictionary
  retry_stats,   \* history: [retried, stats], what the count of the retry found by itself
  \* ---- the web front end (src/app.py)
  state,         \* _state: [status, job, log_file]; job is the request whose log the
                 \* list _state["log"] holds, log_file the request whose file is open
                 \* under _state["log_file"] (0 for None)
  compare_state, \* _compare_state, the same way
  lock,          \* the request whose handler holds _lock, 0 when it is free (a
                 \* thread's "with _lock" block is one step)
  log_callback,  \* plex_db_merge._log_callback: "None", "_append_log" or
                 \* "_append_compare_log"
  req,           \* request r: [kind, pc], the handler of a POST /run or /compare
  job,           \* the thread request r started: [pc, lines, raised]
  misrouted,     \* history: the jobs one of whose log lines did not reach their own log
  closedOther    \* history: the jobs that closed the log file of another job

ivars == <<script, pyMulti, pos, buffer, in_single, in_double, executed, skipped,
           ipc, iresult, execLog>>

dbvars == <<oldMeta, oldSections, newMeta, newViews, newSettings, outMeta, outViews,
            outSettings, outMedia, viewsUnique, settingsUnique>>

nkvars == <<nkRuns, views_added, settings_added>>

tvars == <<tpc, to_add, new_meta_id_to_old, added, progress, ti, preIds, meta_added, order_run>>

ovars == <<pc, files, files0, nextTmp, dbTemps, recovered_old_path, recovered_path,
           old_conn, new_conn, out_conn, recover, merge_new_items, output_path, canOpen, canQuery,
           ok, raised, rpc, r_path, r_out, sql_path, r_after, r_ret, r_build, stats, retry_stats>>

avars == <<state, compare_state, lock, log_callback, req, job, misrouted, closedOther>>

vars == <<ivars, dbvars, nkvars, tvars, ovars, avars>>

(***************************************************************************)
(* Characters.  A text is a sequence of one-character strings.             *)
(***************************************************************************)
SQ == "'"
DQ == "\""
SEMI == ";"
NL == "\n"
DASH == "-"
\* an ordinary character of a well-formed statement
OKCH == "a"
\* a character SQLite cannot tokenize outside a literal (GARBAGE$%^)
BADCH == "x"
\* a well-formed statement whose execution violates a constraint of the
\* database (a second row with the same primary key, as .dump of a damaged
\* database can emit)
DUPCH == "u"

IsSpace(c) == c = NL \/ c = " "

(***************************************************************************)
(* _semicolon_outside_string (lines 345-362): True as soon as a semicolon  *)
(* is met while neither flag is set.  A quote ends its literal unless the  *)
(* character after it is the same quote.                                   *)
(***************************************************************************)
RECURSIVE ScanSemicolon(_, _, _, _)
ScanSemicolon(s, i, in_s, in_d) ==
  IF i > Len(s) THEN FALSE
  ELSE LET c == s[i]
           nextIs(q) == i + 1 <= Len(s) /\ s[i + 1] = q
       IN IF in_s
            THEN ScanSemicolon(s, i + 1, ~(c = SQ /\ ~nextIs(SQ)), in_d)
          ELSE IF in_d
            THEN ScanSemicolon(s, i + 1, in_s, ~(c = DQ /\ ~nextIs(DQ)))
          ELSE IF c = SQ THEN ScanSemicolon(s, i + 1, TRUE, in_d)
          ELSE IF c = DQ THEN ScanSemicolon(s, i + 1, in_s, TRUE)
          ELSE IF c = SEMI THEN TRUE
          ELSE ScanSemicolon(s, i + 1, in_s, in_d)

SemicolonOutsideString(s) == ScanSemicolon(s, 1, FALSE, FALSE)

(***************************************************************************)
(* The quote-state update of lines 388-398, over one line.                 *)
(***************************************************************************)
RECURSIVE ScanQuotes(_, _, _, _)
ScanQuotes(line, i, in_s, in_d) ==
  IF i > Len(line) THEN <<in_s, in_d>>
  ELSE LET c == line[i]
           nextIs(q) == i + 1 <= Len(line) /\ line[i + 1] = q
       IN IF in_s
            THEN ScanQuotes(line, i + 1, ~(c = SQ /\ ~nextIs(SQ)), in_d)
          ELSE IF in_d
            THEN ScanQuotes(line, i + 1, in_s, ~(c = DQ /\ ~nextIs(DQ)))
          ELSE IF c = SQ THEN ScanQuotes(line, i + 1, TRUE, in_d)
          ELSE IF c = DQ THEN ScanQuotes(line, i + 1, in_s, TRUE)
          ELSE ScanQuotes(line, i + 1, in_s, in_d)

UpdateQuoteState(line, in_s, in_d) == ScanQuotes(line, 1, in_s, in_d)

(***************************************************************************)
(* str.strip() and str.startswith("--").                                   *)
(***************************************************************************)
RECURSIVE LStrip(_)
LStrip(s) == IF s # <<>> /\ IsSpace(Head(s)) THEN LStrip(Tail(s)) ELSE s

RECURSIVE RStrip(_)
RStrip(s) ==
  IF s # <<>> /\ IsSpace(s[Len(s)]) THEN RStrip(SubSeq(s, 1, Len(s) - 1)) ELSE s

Strip(s) == RStrip(LStrip(s))

StartsWithDashes(s) == Len(s) >= 2 /\ s[1] = DASH /\ s[2] = DASH

(***************************************************************************)
(* What SQLite makes of a text: its statements, split where SQLite's own   *)
(* tokenizer splits them (a quote doubled inside a literal is an escape,   *)
(* a -- comment runs to the end of the line).  Each statement is recorded  *)
(* with whether it holds an untokenizable character and whether its last   *)
(* literal is left open; a bare semicolon after a statement is recorded as *)
(* a statement without content (the sqlite3 module counts it as more text).*)
(***************************************************************************)
NoStmt == [content |-> FALSE, bad |-> FALSE, open |-> FALSE, viol |-> FALSE]

RECURSIVE SqlSplit(_, _, _, _, _)
SqlSplit(s, i, mode, cur, acc) ==
  IF i > Len(s)
    THEN IF cur.content
           THEN Append(acc, [cur EXCEPT !.open = (mode = "sq" \/ mode = "dq")])
           ELSE acc
  ELSE LET c == s[i]
           nextIs(q) == i + 1 <= Len(s) /\ s[i + 1] = q
           on == [cur EXCEPT !.content = TRUE]
       IN CASE mode = "sq" ->
                 IF c = SQ /\ nextIs(SQ) THEN SqlSplit(s, i + 2, "sq", cur, acc)
                 ELSE IF c = SQ THEN SqlSplit(s, i + 1, "out", cur, acc)
                 ELSE SqlSplit(s, i + 1, "sq", cur, acc)
            [] mode = "dq" ->
                 IF c = DQ /\ nextIs(DQ) THEN SqlSplit(s, i + 2, "dq", cur, acc)
                 ELSE IF c = DQ THEN SqlSplit(s, i + 1, "out", cur, acc)
                 ELSE SqlSplit(s, i + 1, "dq", cur, acc)
            [] mode = "cm" ->
                 SqlSplit(s, i + 1, IF c = NL THEN "out" ELSE "cm", cur, acc)
            [] OTHER ->
                 IF c = SQ THEN SqlSplit(s, i + 1, "sq", on, acc)
                 ELSE IF c = DQ THEN SqlSplit(s, i + 1, "dq", on, acc)
                 ELSE IF c = DASH /\ nextIs(DASH) THEN SqlSplit(s, i + 2, "cm", cur, acc)
                 ELSE IF IsSpace(c) THEN SqlSplit(s, i + 1, "out", cur, acc)
                 ELSE IF c = SEMI
                   THEN SqlSplit(s, i + 1, "out", NoStmt,
                                 IF cur.content \/ acc # <<>>
                                   THEN Append(acc, cur) ELSE acc)
                 ELSE IF c = BADCH
                   THEN SqlSplit(s, i + 1, "out", [on EXCEPT !.bad = TRUE], acc)
                 ELSE IF c = DUPCH
                   THEN SqlSplit(s, i + 1, "out", [on EXCEPT !.viol = TRUE], acc)
                 ELSE SqlSplit(s, i + 1, "out", on, acc)

SqlStatements(s) == SqlSplit(s, 1, "out", NoStmt, <<>>)

(***************************************************************************)
(* conn.execute(stmt) (lines 376, 403): the sqlite3 module prepares the    *)
(* first statement of the text (a syntax error there is an                 *)
(* OperationalError), then refuses a text that holds more after it.  That  *)
(* refusal is a ProgrammingError from Python 3.11 on and a sqlite3.Warning *)
(* before: pyMulti is the one the interpreter in use raises.  A statement  *)
(* that compiles and then violates a constraint raises IntegrityError.     *)
(***************************************************************************)
ExecOutcome(stmt, multi) ==
  LET p == SqlStatements(stmt)
  IN IF p = <<>> THEN "ok"
     ELSE IF p[1].bad THEN "OperationalError"
     ELSE IF Len(p) > 1 THEN multi
     ELSE IF p[1].open THEN "OperationalError"
     ELSE IF p[1].viol THEN "IntegrityError"
     ELSE "ok"

\* except (sqlite3.OperationalError, sqlite3.ProgrammingError) (lines 384, 405)
CaughtByImporter(outcome) == outcome \in {"OperationalError", "ProgrammingError"}

(***************************************************************************)
(* The script: up to MaxLines lines drawn from LinePool.                   *)
(***************************************************************************)
MaxLines == 3

LinePool ==
  { <<OKCH, SEMI, NL>>,                          \* a;
    <<BADCH, SEMI, NL>>,                         \* x;       an invalid literal
    <<DUPCH, SEMI, NL>>,                         \* u;       a constraint violation
    <<SQ, SEMI, SQ, SEMI, NL>>,                  \* ';';     a semicolon in a literal
    <<DQ, SEMI, DQ, SEMI, NL>>,                  \* ";";
    <<SQ, OKCH, SQ, SQ, OKCH, SQ, SEMI, NL>>,    \* 'a''a';  a doubled quote, then text
    <<SQ, OKCH, SQ, SQ, SEMI, NL>>,              \* 'a'';    ... the literal goes on
    <<SQ, OKCH, SEMI, NL>>,                      \* 'a;      a literal left open
    <<OKCH, SQ, SEMI, NL>>,                      \* a';      ... and closed
    <<OKCH, SEMI, OKCH, SEMI, NL>>,              \* a;a;     two statements on a line
    <<DASH, DASH, OKCH, NL>>,                    \* --a      a comment line
    <<OKCH, NL>> }                               \* a        a statement going on

RECURSIVE SeqsUpTo(_, _)
SeqsUpTo(S, n) ==
  IF n = 0 THEN {<<>>}
  ELSE LET shorter == SeqsUpTo(S, n - 1)
       IN shorter \cup {Append(q, x) : q \in {r \in shorter : Len(r) = n - 1}, x \in S}

RECURSIVE Flatten(_)
Flatten(ls) == IF ls = <<>> THEN <<>> ELSE Head(ls) \o Flatten(Tail(ls))

ImportIdle ==
  /\ script = <<>> /\ pyMulti = "ProgrammingError" /\ pos = 0 /\ buffer = <<>>
  /\ in_single = FALSE /\ in_double = FALSE /\ executed = 0 /\ skipped = 0
  /\ ipc = "idle" /\ iresult = FALSE /\ execLog = <<>>

\* lines 335-343: the state before the first line is read
ImportInit ==
  /\ script \in SeqsUpTo(LinePool, MaxLines)
  /\ pyMulti \in {"ProgrammingError", "Warning"}
  /\ pos = 1 /\ buffer = <<>>
  /\ in_single = FALSE /\ in_double = FALSE /\ executed = 0 /\ skipped = 0
  /\ ipc = "reading" /\ iresult = FALSE /\ execLog = <<>>

\* lines 375-385 and 402-406: execute one statement.  The result: the counters
\* after it, whether an exception the except clause does not name left the
\* importer, and the history of executions.
ExecuteStmt(stmt, upto, atEnd) ==
  LET outcome == ExecOutcome(stmt, pyMulti)
  IN [executed |-> IF outcome = "ok" THEN executed + 1 ELSE executed,
      skipped  |-> IF outcome # "ok" /\ CaughtByImporter(outcome)
                     THEN skipped + 1 ELSE skipped,
      raised   |-> outcome # "ok" /\ ~CaughtByImporter(outcome),
      log      |-> Append(execLog, [text |-> stmt, upto |-> upto, atEnd |-> atEnd,
                                    outcome |-> outcome])]

\* lines 366-398: one iteration of "for line in f"
ImportLine ==
  /\ ipc = "reading" /\ pos <= Len(script)
  /\ LET line == script[pos]
         content == buffer \o line
         stmt == Strip(content)
         q == UpdateQuoteState(line, in_single, in_double)
     IN IF SemicolonOutsideString(content)
          THEN /\ buffer' = <<>> /\ in_single' = FALSE /\ in_double' = FALSE
               /\ IF stmt = <<>> \/ StartsWithDashes(stmt)
                    THEN UNCHANGED <<executed, skipped, ipc, execLog>>
                    ELSE LET r == ExecuteStmt(stmt, pos, FALSE)
                         IN /\ executed' = r.executed /\ skipped' = r.skipped
                            /\ execLog' = r.log
                            /\ ipc' = IF r.raised THEN "raised" ELSE ipc
          ELSE /\ buffer' = content
               /\ in_single' = q[1] /\ in_double' = q[2]
               /\ UNCHANGED <<executed, skipped, ipc, execLog>>
  /\ pos' = pos + 1
  /\ UNCHANGED <<script, pyMulti, iresult, dbvars, nkvars, tvars, ovars>>
  /\ UNCHANGED avars

\* lines 399-406 and 411-414: the end of input: the rest of the buffer is
\* executed once, then commit, close and return executed > 0
ImportEnd ==
  /\ ipc = "reading" /\ pos > Len(script)
  /\ LET stmt == Strip(buffer)
     IN IF buffer # <<>> /\ stmt # <<>> /\ ~StartsWithDashes(stmt)
          THEN LET r == ExecuteStmt(stmt, Len(script), TRUE)
               IN /\ executed' = r.executed /\ skipped' = r.skipped
                  /\ execLog' = r.log
                  /\ ipc' = IF r.raised THEN "raised" ELSE "done"
                  /\ iresult' = (~r.raised /\ r.executed > 0)
          ELSE /\ UNCHANGED <<executed, skipped, execLog>>
               /\ ipc' = "done"
               /\ iresult' = (executed > 0)
  /\ UNCHANGED <<script, pyMulti, pos, buffer, in_single, in_double, dbvars, nkvars, tvars, ovars>>
  /\ UNCHANGED avars

\* a read error that reports what was executed until then
ImportReadErrorCounting ==
  /\ ipc = "reading" /\ pos <= Len(script)
  /\ ipc' = "failed" /\ iresult' = (executed > 0)
  /\ UNCHANGED <<script, pyMulti, pos, buffer, in_single, in_double, executed,
                 skipped, execLog, dbvars, nkvars, tvars, ovars>>
  /\ UNCHANGED avars

\* lines 407-410: reading the file fails part-way (OSError): close, return False
ImportReadError ==
  /\ ipc = "reading" /\ pos <= Len(script)
  /\ ipc' = "failed" /\ iresult' = FALSE
  /\ UNCHANGED <<script, pyMulti, pos, buffer, in_single, in_double, executed,
                 skipped, execLog, dbvars, nkvars, tvars, ovars>>
  /\ UNCHANGED avars
(***************************************************************************)
(* The databases.  A guid is a string; NoGuid stands for NULL and for ''   *)
(* (the code treats both alike: "guid IS NOT NULL AND guid != ''", and a   *)
(* dictionary lookup that finds neither).  NoId stands for a NULL id.      *)
(***************************************************************************)
NoGuid == ""
NoId == 0

NoTable == [exists |-> FALSE, rows |-> {}]
NoTableSeq == [exists |-> FALSE, rows |-> <<>>]

RECURSIVE MaxOf(_)
MaxOf(S) == IF S = {} THEN 0 ELSE LET x == CHOOSE y \in S : TRUE
                                  m == MaxOf(S \ {x})
                              IN IF x > m THEN x ELSE m

\* table_exists (lines 502-506)
table_exists(t) == t.exists

(***************************************************************************)
(* merge_watch_history_and_settings (lines 509-589).                       *)
(***************************************************************************)
\* a lookup that also knows the guids of new's items
GuidToIdOldAndNew(meta) ==
  LET withGuid == {r \in meta.rows \cup newMeta.rows : r.guid # NoGuid}
  IN [g \in {r.guid : r \in withGuid} |->
        MaxOf({r.id : r \in {q \in withGuid : q.guid = g}})]

\* lines 524-525: the guid -> id dictionary of old
GuidToIdOld(meta) ==
  LET withGuid == {r \in meta.rows : r.guid # NoGuid}
  IN [g \in {r.guid : r \in withGuid} |->
        MaxOf({r.id : r \in {q \in withGuid : q.guid = g}})]

\* a lookup that lets every row through
ResolvesAlways(g2i, guid) == TRUE

\* lines 541-543, 572-574: guid_to_id_old.get(guid) is not None
ResolvesInOld(g2i, guid) == guid \in DOMAIN g2i

\* INSERT OR IGNORE INTO metadata_item_views (lines 545-553): the id is not
\* given, so the row conflicts only with a UNIQUE constraint of the table
\* over the columns given
InsertOrIgnoreView(rows, unique, r) ==
  IF unique /\ \E e \in rows : e.acct = r.acct /\ e.guid = r.guid /\ e.at = r.at
    THEN [rows |-> rows, rowcount |-> 0]
    ELSE [rows |-> rows \cup {[id |-> MaxOf({e.id : e \in rows}) + 1, acct |-> r.acct,
                               guid |-> r.guid, at |-> r.at]},
          rowcount |-> 1]

\* INSERT OR REPLACE INTO metadata_item_settings (lines 576-584): a row that
\* conflicts on a UNIQUE constraint is deleted, then the new row is inserted
InsertOrReplaceSetting(rows, unique, r) ==
  LET kept == IF unique
                THEN {e \in rows : ~(e.acct = r.acct /\ e.guid = r.guid)}
                ELSE rows
  IN [rows |-> kept \cup {[id |-> MaxOf({e.id : e \in rows}) + 1, acct |-> r.acct,
                           guid |-> r.guid, val |-> r.val]},
      rowcount |-> 1]

\* lines 539-555: the loop over new's views
RECURSIVE MergeViewRows(_, _, _, _, _)
MergeViewRows(g2i, src, i, rows, cnt) ==
  IF i > Len(src) THEN [rows |-> rows, added |-> cnt]
  ELSE IF ~ResolvesInOld(g2i, src[i].guid)
    THEN MergeViewRows(g2i, src, i + 1, rows, cnt)
  ELSE LET ins == InsertOrIgnoreView(rows, viewsUnique, src[i])
       IN MergeViewRows(g2i, src, i + 1, ins.rows,
                        IF ins.rowcount # 0 THEN cnt + 1 ELSE cnt)

\* lines 570-586: the loop over new's settings
RECURSIVE MergeSettingRows(_, _, _, _, _)
MergeSettingRows(g2i, src, i, rows, cnt) ==
  IF i > Len(src) THEN [rows |-> rows, added |-> cnt]
  ELSE IF ~ResolvesInOld(g2i, src[i].guid)
    THEN MergeSettingRows(g2i, src, i + 1, rows, cnt)
  ELSE LET ins == InsertOrReplaceSetting(rows, settingsUnique, src[i])
       IN MergeSettingRows(g2i, src, i + 1, ins.rows,
                           IF ins.rowcount # 0 THEN cnt + 1 ELSE cnt)

\* how often the merge is applied to one output
MaxRuns == 2

\* merge_watch_history_and_settings(old_conn, new_conn, out_conn), whole
MergeWatchHistoryAndSettings ==
  /\ nkRuns < MaxRuns
  /\ nkRuns' = nkRuns + 1
  /\ IF ~table_exists(oldMeta)
       THEN /\ views_added' = 0 /\ settings_added' = 0
            /\ UNCHANGED <<outViews, outSettings>>
       ELSE LET g2i == GuidToIdOld(oldMeta)
                v == IF table_exists(newViews) /\ table_exists(outViews)
                       THEN MergeViewRows(g2i, newViews.rows, 1, outViews.rows, 0)
                       ELSE [rows |-> outViews.rows, added |-> 0]
                t == IF table_exists(newSettings) /\ table_exists(outSettings)
                       THEN MergeSettingRows(g2i, newSettings.rows, 1, outSettings.rows, 0)
                       ELSE [rows |-> outSettings.rows, added |-> 0]
            IN /\ outViews' = [outViews EXCEPT !.rows = v.rows]
               /\ outSettings' = [outSettings EXCEPT !.rows = t.rows]
               /\ views_added' = v.added
               /\ settings_added' = t.added
  /\ UNCHANGED <<ivars, tvars, ovars, oldMeta, oldSections, newMeta, newViews, newSettings,
                 outMeta, outMedia, viewsUnique, settingsUnique>>
  /\ UNCHANGED avars

(***************************************************************************)
(* merge_new_library_items (lines 605-768), the metadata_items part.       *)
(***************************************************************************)
\* rows of a table in the order a table scan returns them: by rowid
RECURSIVE SortById(_)
SortById(rows) ==
  IF rows = {} THEN <<>>
  ELSE LET m == CHOOSE r \in rows : \A q \in rows : r.id <= q.id
       IN <<m>> \o SortById(rows \ {m})

\* lines 618-619: old_guids
OldGuids(meta) == {r.guid : r \in meta.rows} \ {NoGuid}

\* line 634: r[4] and r[4] not in old_guids
IsCandidate(r, old_guids) == r.guid # NoGuid /\ r.guid \notin old_guids

\* lines 630-634: to_add
ToAdd(new_meta, old_meta) ==
  SelectSeq(SortById(new_meta.rows), LAMBDA r : IsCandidate(r, OldGuids(old_meta)))

\* lines 592-602: get_old_max_ids(out_conn)["metadata_items"]
MaxMetaId(rows) == MaxOf({r.id : r \in rows})

\* an import that keeps the ids the rows have in new
AssignSameIds(cands, max_id) == [id \in {cands[k].id : k \in 1..Len(cands)} |-> id]

\* lines 639-643: every candidate gets the next id above output's maximum
AssignIds(cands, max_id) ==
  [id \in {cands[k].id : k \in 1..Len(cands)} |->
     max_id + (CHOOSE k \in 1..Len(cands) : cands[k].id = id)]

\* line 645
NewMetaIds(cands) == {cands[k].id : k \in 1..Len(cands)}

\* line 655: parent_id is None or parent_id not in new_meta_ids or parent_id in added
ParentReady(parent_id, new_meta_ids, done) ==
  parent_id = NoId \/ parent_id \notin new_meta_ids \/ parent_id \in done

\* an import that does not look at the library section
SectionAlwaysKnown(section, sections) == TRUE

\* lines 657-661: the library section of the row is one of old's (or the row has none)
SectionKnown(section, sections) == section = NoId \/ section \in sections

\* lines 665-667, 676: the parent_id written to output
ParentOut(map, parent_id) ==
  IF parent_id # NoId /\ parent_id \in DOMAIN map THEN map[parent_id] ELSE parent_id

\* lines 615-648: up to the first pass
ItemsBegin ==
  /\ tpc = "start"
  /\ IF ~table_exists(newMeta) \/ ~table_exists(oldMeta) \/ ToAdd(newMeta, oldMeta) = <<>>
       THEN /\ tpc' = "done" /\ meta_added' = 0
            /\ UNCHANGED <<to_add, new_meta_id_to_old, added, progress, ti, preIds>>
       ELSE /\ to_add' = ToAdd(newMeta, oldMeta)
            /\ new_meta_id_to_old' = AssignIds(ToAdd(newMeta, oldMeta), MaxMetaId(outMeta))
            /\ preIds' = {r.id : r \in outMeta}
            /\ added' = {} /\ progress' = 0 /\ ti' = 1
            /\ tpc' = "for"
            /\ UNCHANGED meta_added
  /\ UNCHANGED <<ivars, ovars, dbvars, nkvars>>
  /\ UNCHANGED order_run
  /\ UNCHANGED avars

\* lines 668-677: out_cur.execute("INSERT INTO metadata_items (...) VALUES (...)").
\* The statement names MetaInsertColumns columns (lines 669-674) and holds
\* MetaInsertPlaceholders question marks (line 675).  SQLite compiles an INSERT
\* only when the two agree; otherwise execute raises sqlite3.OperationalError
\* ("48 values for 47 columns") and no row is written.
MetaInsertColumns == 47
MetaInsertPlaceholders == 48

InsertMetadataItem(rows, row) ==
  IF MetaInsertPlaceholders = MetaInsertColumns
    THEN [rows |-> rows \cup {row}, raised |-> FALSE]
    ELSE [rows |-> rows, raised |-> TRUE]

\* lines 651-677: one iteration of "for r in to_add"
ItemsVisit ==
  /\ tpc = "for" /\ ti <= Len(to_add)
  /\ LET r == to_add[ti]
         ins == InsertMetadataItem(outMeta,
                  [id |-> new_meta_id_to_old[r.id], section |-> r.section,
                   parent |-> ParentOut(new_meta_id_to_old, r.parent),
                   guid |-> r.guid, src |-> r.id])
     IN IF r.id \notin added /\ ParentReady(r.parent, NewMetaIds(to_add), added)
          THEN IF ~SectionKnown(r.section, oldSections)
                 THEN /\ added' = added \cup {r.id}
                      /\ UNCHANGED <<progress, outMeta, tpc>>
                 ELSE /\ progress' = progress + 1
                      /\ added' = added \cup {r.id}
                      /\ outMeta' = ins.rows
                      /\ tpc' = IF ins.raised THEN "raised" ELSE tpc
          ELSE UNCHANGED <<added, progress, outMeta, tpc>>
  /\ ti' = ti + 1
  /\ UNCHANGED <<ivars, ovars, nkvars, to_add, new_meta_id_to_old, preIds, meta_added,
                 oldMeta, oldSections, newMeta, newViews, newSettings, outViews,
                 outSettings, outMedia, viewsUnique, settingsUnique>>
  /\ UNCHANGED order_run
  /\ UNCHANGED avars

\* a pass loop without the guard of lines 678-679
ItemsPassEndNoGuard ==
  /\ tpc = "for" /\ ti > Len(to_add)
  /\ IF ~(Cardinality(added) < Len(to_add))
       THEN tpc' = "finish" /\ UNCHANGED <<progress, ti>>
       ELSE tpc' = "for" /\ progress' = 0 /\ ti' = 1
  /\ UNCHANGED <<ivars, ovars, dbvars, nkvars, to_add, new_meta_id_to_old, added, preIds,
                 meta_added>>
  /\ UNCHANGED order_run
  /\ UNCHANGED avars

\* lines 649, 678-680: the end of a pass: stop when it made no progress or when
\* every candidate is in added, else scan again
ItemsPassEnd ==
  /\ tpc = "for" /\ ti > Len(to_add)
  /\ IF progress = 0 \/ ~(Cardinality(added) < Len(to_add))
       THEN tpc' = "finish" /\ UNCHANGED <<progress, ti>>
       ELSE tpc' = "for" /\ progress' = 0 /\ ti' = 1
  /\ UNCHANGED <<ivars, ovars, dbvars, nkvars, to_add, new_meta_id_to_old, added, preIds,
                 meta_added>>
  /\ UNCHANGED order_run
  /\ UNCHANGED avars

\* no media table
NoMedia == [media_items |-> {}, media_parts |-> {}, media_streams |-> {}]

\* the media tables of old, which output starts with: one media item of item
\* 1 with one part and one stream
OldMedia ==
  [media_items |-> {[id |-> 11, meta |-> 1, src |-> NoId]},
   media_parts |-> {[id |-> 21, media |-> 11, src |-> NoId]},
   media_streams |-> {[id |-> 31, media |-> 11, part |-> 21, src |-> NoId]}]

\* the media tables of new: two media items for item 1 and one for each of items
\* 1 to 3, each with one part and one stream; their ids overlap those of old
NewMediaItems ==
  {[id |-> 10, meta |-> 1]} \cup {[id |-> 10 + m, meta |-> m] : m \in {1, 2, 3}}
NewMediaParts == {[id |-> 10 + m.id, media |-> m.id] : m \in NewMediaItems}
NewMediaStreams ==
  {[id |-> 20 + m.id, media |-> m.id, part |-> 10 + m.id] : m \in NewMediaItems}

\* lines 685-699: the media_items of new that refer to a candidate, and the
\* fresh id of each
MediaRows(cands) == SortById({m \in NewMediaItems : m.meta \in NewMetaIds(cands)})

\* lines 700-716: the media_items rows written
CopiedMediaItems(cands, meta_map, media_map) ==
  {[id |-> media_map[m.id], meta |-> meta_map[m.meta], src |-> m.id] :
     m \in {q \in NewMediaItems : q.meta \in DOMAIN meta_map /\ q.id \in DOMAIN media_map}}

\* lines 721-740, 744-765: the rows of media_parts / media_streams of new that
\* refer to a copied media item, in the order they are read
ChildRows(rows, media_map) == SortById({c \in rows : c.media \in DOMAIN media_map})

\* lines 682-766: after the metadata_items, copy the media_items that refer to
\* a candidate (whether or not the candidate was inserted), then the
\* media_parts and media_streams that refer to those media items, all with
\* ids above the maxima get_old_max_ids read at line 638 (each local of the
\* code is bound once, to the one value the code computes for it)
ItemsMedia ==
  /\ tpc = "finish"
  /\ \E media_rows \in {MediaRows(to_add)} :
     \E new_media_id_to_old \in
          {AssignIds(media_rows, MaxOf({r.id : r \in {q \in outMedia.media_items : q.src = NoId}}))} :
     \E part_rows \in {ChildRows(NewMediaParts, new_media_id_to_old)} :
     \E stream_rows \in {ChildRows(NewMediaStreams, new_media_id_to_old)} :
     \E part_ids \in {AssignIds(part_rows,
                       MaxOf({r.id : r \in {q \in outMedia.media_parts : q.src = NoId}}))} :
     \E stream_ids \in {AssignIds(stream_rows,
                         MaxOf({r.id : r \in {q \in outMedia.media_streams : q.src = NoId}}))} :
       outMedia' =
          [media_items |-> outMedia.media_items
                             \cup CopiedMediaItems(to_add, new_meta_id_to_old, new_media_id_to_old),
           media_parts |-> outMedia.media_parts \cup
              {[id |-> part_ids[c.id], media |-> new_media_id_to_old[c.media], src |-> c.id] :
                 c \in {part_rows[k] : k \in 1..Len(part_rows)}},
           media_streams |-> outMedia.media_streams \cup
              {[id |-> stream_ids[c.id], media |-> new_media_id_to_old[c.media],
                part |-> c.part, src |-> c.id] :
                 c \in {stream_rows[k] : k \in 1..Len(stream_rows)}}]
  /\ tpc' = "return"
  /\ UNCHANGED <<oldMeta, oldSections, newMeta, newViews, newSettings, outMeta, outViews,
                 outSettings, viewsUnique, settingsUnique>>
  /\ UNCHANGED <<ivars, ovars, nkvars, to_add, new_meta_id_to_old, added, progress, ti,
                 preIds, meta_added>>
  /\ UNCHANGED order_run
  /\ UNCHANGED avars

\* line 768: return len(to_add)
ItemsReturn ==
  /\ tpc = "return"
  /\ meta_added' = Len(to_add)
  /\ tpc' = "done"
  /\ UNCHANGED <<ivars, ovars, dbvars, nkvars, to_add, new_meta_id_to_old, added, progress, ti,
                 preIds>>
  /\ UNCHANGED order_run
  /\ UNCHANGED avars

(***************************************************************************)
(* The merge proper of run_merge (lines 128-135), over the contents of the *)
(* three databases: first merge_watch_history_and_settings, then, if       *)
(* merge_new_items is set, merge_new_library_items.                        *)
(***************************************************************************)
\* line 129 is the first statement of the try block
NaturalKeyTurn == nkRuns = 0 /\ tpc = "wait"

\* lines 132-134 follow the return of line 129
ItemsTurn == nkRuns = 1 /\ tpc = "wait"

\* line 129
FullNaturalKey ==
  /\ NaturalKeyTurn
  /\ MergeWatchHistoryAndSettings

\* lines 132-134: "if merge_new_items: meta_added = merge_new_library_items(...)"
FullItemsCall ==
  /\ ItemsTurn
  /\ tpc' = IF merge_new_items THEN "start" ELSE "not_requested"
  /\ UNCHANGED <<to_add, new_meta_id_to_old, added, progress, ti, preIds, meta_added>>
  /\ UNCHANGED <<ivars, dbvars, nkvars, ovars>>
  /\ UNCHANGED order_run
  /\ UNCHANGED avars

(***************************************************************************)
(* The file system and the connections of run_merge and preview_merge.     *)
(* Contents: "OLD" and "NEW" are the bytes old_path and new_path hold when *)
(* the call begins, "PRE" those of another file that exists already,       *)
(* "EMPTY" a file tempfile has just created, "SQL" a salvaged script, "DB" *)
(* a database rebuilt from a script, "MERGED" the output after the merge   *)
(* has written to it.  "SQL0" is a salvaged script without one statement   *)
(* that can be imported (an empty script, or failing statements only) and  *)
(* "DB0" the database rebuilt from it, which holds nothing.                *)
(***************************************************************************)
NamedPaths == {"old", "new", "out"}
TmpNames == <<"t1", "t2", "t3", "t4", "t5", "t6", "t7", "t8", "t9", "t10", "t11", "t12">>
TmpPaths == {TmpNames[k] : k \in 1..Len(TmpNames)}
Paths == NamedPaths \cup TmpPaths

NoConn == [path |-> "", open |-> FALSE]
Connected(p) == [path |-> p, open |-> TRUE]
\* conn.close()
Closed(c) == [c EXCEPT !.open = FALSE]
\* "if not old_conn"
IsNone(c) == c.path = ""

\* os.path.isfile(p) (lines 81, 180), os.path.exists(p)
IsFile(p) == files[p] # "none"

\* try_open_db (lines 301-312): sqlite3.connect(mode=ro) on the file; whether an
\* original file opens is a property of its content, whether a rebuilt or
\* empty file opens is left open
TryOpenOutcomes(p) ==
  IF files[p] = "none" THEN {FALSE}
  ELSE IF files[p] \in {"OLD", "NEW"} THEN {files[p] \in canOpen}
  ELSE BOOLEAN

\* the queries of the merge and of the count read the file behind a
\* connection: those on an original file fail with sqlite3.DatabaseError when
\* its tables cannot be read, and any read may fail on damage met later
Readable(c) == files[c.path] \in {"OLD", "NEW"} => files[c.path] \in canQuery

ReadOutcomes ==
  IF Readable(old_conn) /\ Readable(new_conn) THEN {"ok", "dberror"} ELSE {"dberror"}

\* "if p and os.path.exists(p): os.unlink(p)" over a set of names ("" for None)
Unlinked(fs, names) == [p \in Paths |-> IF p \in names THEN "none" ELSE fs[p]]

(***************************************************************************)
(* recover_db (lines 417-494), one action per subprocess.                  *)
(***************************************************************************)
OrchFrame == <<stats, retry_stats, files0, dbTemps, recovered_old_path, recovered_path, old_conn, new_conn,
               out_conn, recover, merge_new_items, output_path, canOpen, canQuery, ok, raised>>

\* the caller's "recover_db(path, out_path)"
CallRecover(path, out, after) ==
  /\ rpc' = "r_begin" /\ r_path' = path /\ r_out' = out /\ r_after' = after
  /\ pc' = "in_recover" /\ r_build' = "none" /\ UNCHANGED <<sql_path, r_ret>>

\* recover_db returns v
RecoverReturns(v) ==
  /\ rpc' = "idle" /\ r_ret' = v /\ pc' = r_after
  /\ UNCHANGED <<r_path, r_out, r_after>>

\* lines 421-422: the script file is created
RecoverBegin ==
  /\ rpc = "r_begin"
  /\ sql_path' = TmpNames[nextTmp]
  /\ nextTmp' = nextTmp + 1
  /\ files' = [files EXCEPT ![TmpNames[nextTmp]] = "EMPTY"]
  /\ rpc' = "r_recover"
  /\ UNCHANGED <<pc, r_path, r_out, r_after, r_ret, r_build, OrchFrame>>
  /\ UNCHANGED <<ivars, dbvars, nkvars, tvars>>
  /\ UNCHANGED avars

\* what sqlite3 .recover or .dump can write to the script
ScriptKinds == {"SQL", "SQL0"}

\* the database a script builds
Rebuilt(kind) == IF kind = "SQL0" THEN "DB0" ELSE "DB"

\* lines 465-484: how the rebuild from a script can end (see RecoverBuild);
\* _import_sql_skipping_errors returns True only if it executed a statement
BuildOutcomes(kind) ==
  {"rc0", "failed", "exception", "skip_none", "skip_raised"}
    \cup (IF kind = "SQL0" THEN {} ELSE {"skip_ok"})

\* lines 426-443: sqlite3 <path> .recover, its output streamed to the script.
\* "missing": the executable is not found (FileNotFoundError, line 489);
\* "exception": the subprocess times out or cannot be run (line 492);
\* "rc0": it succeeds; "no_recover": it fails for want of .recover, so .dump
\* is tried; "failed": it fails otherwise.
RecoverRun ==
  /\ rpc = "r_recover"
  /\ \E outcome \in {"missing", "exception", "rc0", "no_recover", "failed"},
        kind \in ScriptKinds :
       CASE outcome \in {"missing", "exception"} ->
              /\ RecoverReturns(FALSE)
              /\ UNCHANGED <<files, sql_path>>
         [] outcome = "rc0" ->
              /\ files' = [files EXCEPT ![sql_path] = kind]
              /\ rpc' = "r_build"
              /\ UNCHANGED <<pc, r_path, r_out, r_after, r_ret, sql_path>>
         [] outcome = "no_recover" ->
              /\ rpc' = "r_dump"
              /\ UNCHANGED <<pc, files, r_path, r_out, r_after, r_ret, sql_path>>
         [] outcome = "failed" ->
              /\ files' = Unlinked(files, {sql_path})
              /\ RecoverReturns(FALSE)
              /\ UNCHANGED sql_path
  /\ UNCHANGED <<nextTmp, r_build, OrchFrame>>
  /\ UNCHANGED <<ivars, dbvars, nkvars, tvars>>
  /\ UNCHANGED avars

\* lines 445-461: the script is unlinked, a second one created, sqlite3 <path> .dump
RecoverDump ==
  /\ rpc = "r_dump"
  /\ sql_path' = TmpNames[nextTmp]
  /\ nextTmp' = nextTmp + 1
  /\ \E outcome \in {"exception", "rc0", "failed"}, kind \in ScriptKinds :
       CASE outcome = "exception" ->
              /\ files' = [Unlinked(files, {sql_path}) EXCEPT ![TmpNames[nextTmp]] = "EMPTY"]
              /\ RecoverReturns(FALSE)
         [] outcome = "rc0" ->
              /\ files' = [Unlinked(files, {sql_path}) EXCEPT ![TmpNames[nextTmp]] = kind]
              /\ rpc' = "r_build"
              /\ UNCHANGED <<pc, r_path, r_out, r_after, r_ret>>
         [] outcome = "failed" ->
              /\ files' = Unlinked(files, {sql_path})
              /\ RecoverReturns(FALSE)
  /\ UNCHANGED <<r_build, OrchFrame>>
  /\ UNCHANGED <<ivars, dbvars, nkvars, tvars>>
  /\ UNCHANGED avars

\* a rebuild that writes the database it was asked to salvage
RebuildInPlace(path, out_path) == path

\* line 467: the database the script is piped into
RebuildTarget(path, out_path) == out_path

\* lines 465-488: sqlite3 <out_path> reads the script.  "rc0": the bulk import
\* succeeds (the exit status is all that is looked at, lines 472 and 486-488);
\* "failed": it fails without a parse error; "exception": the
\* subprocess times out; "skip_ok" / "skip_none" / "skip_raised": it fails with
\* a parse error and _import_sql_skipping_errors (which unlinks out_path and
\* creates it again) returns True, returns False, or is left by an exception
\* its except clauses do not name (caught at line 492).
RecoverBuild ==
  /\ rpc = "r_build"
  /\ \E outcome \in BuildOutcomes(files[sql_path]) :
       /\ r_build' = outcome
       /\ LET target == RebuildTarget(r_path, r_out)
              written == [files EXCEPT ![target] = Rebuilt(files[sql_path])]
          IN CASE outcome \in {"rc0", "skip_ok"} ->
                    /\ files' = Unlinked(written, {sql_path})
                    /\ RecoverReturns(TRUE)
               [] outcome \in {"failed", "skip_none"} ->
                    /\ files' = Unlinked(written, {sql_path})
                    /\ RecoverReturns(FALSE)
               [] outcome \in {"exception", "skip_raised"} ->
                    /\ files' = written
                    /\ RecoverReturns(FALSE)
  /\ UNCHANGED <<sql_path, nextTmp, OrchFrame>>
  /\ UNCHANGED <<ivars, dbvars, nkvars, tvars>>
  /\ UNCHANGED avars

RecoverNext == RecoverBegin \/ RecoverRun \/ RecoverDump \/ RecoverBuild

(***************************************************************************)
(* The steps run_merge and preview_merge share (the code repeats them):    *)
(* lines 77-99 and 106-126 of run_merge, lines 176-215 of preview_merge.   *)
(***************************************************************************)
RecoverIdle == UNCHANGED <<rpc, r_path, r_out, sql_path, r_after, r_ret, r_build>>

\* the call ends: it returns (success, ...) or raises
Ends(success, byRaising) == pc' = "done" /\ ok' = success /\ raised' = byRaising

\* a start that does not look at the input paths
ValidateNothing(here, next) ==
  /\ pc = here
  /\ pc' = next
  /\ UNCHANGED <<ok, raised, files, files0, nextTmp, dbTemps, recovered_old_path,
                 recovered_path, old_conn, new_conn, out_conn, recover, merge_new_items,
                 output_path, canOpen, canQuery, rpc, r_path, r_out, sql_path, r_after,
                 r_ret, r_build>>
  /\ UNCHANGED <<ivars, dbvars, nkvars, tvars, stats, retry_stats>>
  /\ UNCHANGED avars

\* lines 80-83, 179-181: both inputs must be files
Validate(here, next) ==
  /\ pc = here
  /\ IF ~IsFile("old") \/ ~IsFile("new")
       THEN Ends(FALSE, FALSE)
       ELSE pc' = next /\ UNCHANGED <<ok, raised>>
  /\ UNCHANGED <<files, files0, nextTmp, dbTemps, recovered_old_path, recovered_path,
                 old_conn, new_conn, out_conn, recover, merge_new_items, output_path,
                 canOpen, canQuery>>
  /\ RecoverIdle
  /\ UNCHANGED <<ivars, dbvars, nkvars, tvars, stats, retry_stats>>
  /\ UNCHANGED avars

\* lines 85-92, 182-189: open old; if that fails, recover it into a temporary
\* file (whatever the option recover says)
OpenOld(here, recovering, next) ==
  /\ pc = here
  /\ \E opened \in TryOpenOutcomes("old") :
       IF opened
         THEN /\ old_conn' = Connected("old")
              /\ pc' = next
              /\ UNCHANGED <<files, nextTmp, dbTemps, recovered_old_path>>
              /\ RecoverIdle
         ELSE /\ recovered_old_path' = TmpNames[nextTmp]
              /\ nextTmp' = nextTmp + 1
              /\ dbTemps' = dbTemps \cup {TmpNames[nextTmp]}
              /\ files' = [files EXCEPT ![TmpNames[nextTmp]] = "EMPTY"]
              /\ CallRecover("old", TmpNames[nextTmp], recovering)
              /\ UNCHANGED old_conn
  /\ UNCHANGED <<files0, recovered_path, new_conn, out_conn, recover, merge_new_items,
                 output_path, canOpen, canQuery, ok, raised>>
  /\ UNCHANGED <<ivars, dbvars, nkvars, tvars, stats, retry_stats>>
  /\ UNCHANGED avars

\* lines 92-99, 189-196: after the recovery of old
OldRecovered(here, next) ==
  /\ pc = here
  /\ \E opened \in (IF r_ret THEN TryOpenOutcomes(recovered_old_path) ELSE {FALSE}) :
       IF opened
         THEN /\ old_conn' = Connected(recovered_old_path)
              /\ pc' = next
              /\ UNCHANGED <<files, ok, raised>>
         ELSE /\ files' = Unlinked(files, {recovered_old_path})
              /\ Ends(FALSE, FALSE)
              /\ UNCHANGED old_conn
  /\ UNCHANGED <<files0, nextTmp, dbTemps, recovered_old_path, recovered_path, new_conn,
                 out_conn, recover, merge_new_items, output_path, canOpen, canQuery>>
  /\ RecoverIdle
  /\ UNCHANGED <<ivars, dbvars, nkvars, tvars, stats, retry_stats>>
  /\ UNCHANGED avars

\* lines 120-126, 210-215: new_conn is None: try new_path once more, and give up
\* if that fails (recovered_path is None or its file is gone by then)
LastTryNew(next) ==
  \E again \in TryOpenOutcomes("new") :
    IF again
      THEN new_conn' = Connected("new") /\ pc' = next /\ UNCHANGED <<ok, raised>>
      ELSE Ends(FALSE, FALSE) /\ UNCHANGED new_conn

\* an opening of new that recovers it whatever the option recover says
OpenNewRecoveringAlways(here, recovering, next) ==
  /\ pc = here
  /\ \E opened \in TryOpenOutcomes("new") :
       IF opened
         THEN /\ new_conn' = Connected("new")
              /\ pc' = next
              /\ UNCHANGED <<files, nextTmp, dbTemps, recovered_path, ok, raised>>
              /\ RecoverIdle
         ELSE /\ recovered_path' = TmpNames[nextTmp]
              /\ nextTmp' = nextTmp + 1
              /\ dbTemps' = dbTemps \cup {TmpNames[nextTmp]}
              /\ files' = [files EXCEPT ![TmpNames[nextTmp]] = "EMPTY"]
              /\ CallRecover("new", TmpNames[nextTmp], recovering)
              /\ UNCHANGED <<new_conn, ok, raised>>
  /\ UNCHANGED <<files0, recovered_old_path, old_conn, out_conn, recover, merge_new_items,
                 output_path, canOpen, canQuery>>
  /\ UNCHANGED <<ivars, dbvars, nkvars, tvars, stats, retry_stats>>
  /\ UNCHANGED avars

\* lines 106-112, 197-203: open new; if that fails and recover is set, recover it
OpenNew(here, recovering, next) ==
  /\ pc = here
  /\ \E opened \in TryOpenOutcomes("new") :
       IF opened
         THEN /\ new_conn' = Connected("new")
              /\ pc' = next
              /\ UNCHANGED <<files, nextTmp, dbTemps, recovered_path, ok, raised>>
              /\ RecoverIdle
       ELSE IF recover
         THEN /\ recovered_path' = TmpNames[nextTmp]
              /\ nextTmp' = nextTmp + 1
              /\ dbTemps' = dbTemps \cup {TmpNames[nextTmp]}
              /\ files' = [files EXCEPT ![TmpNames[nextTmp]] = "EMPTY"]
              /\ CallRecover("new", TmpNames[nextTmp], recovering)
              /\ UNCHANGED <<new_conn, ok, raised>>
         ELSE /\ LastTryNew(next)
              /\ UNCHANGED <<files, nextTmp, dbTemps, recovered_path>>
              /\ RecoverIdle
  /\ UNCHANGED <<files0, recovered_old_path, old_conn, out_conn, recover, merge_new_items,
                 output_path, canOpen, canQuery>>
  /\ UNCHANGED <<ivars, dbvars, nkvars, tvars, stats, retry_stats>>
  /\ UNCHANGED avars

\* lines 113-126, 204-215: after the recovery of new
NewRecovered(here, next) ==
  /\ pc = here
  /\ \E opened \in (IF r_ret THEN TryOpenOutcomes(recovered_path) ELSE {FALSE}) :
       IF opened
         THEN /\ new_conn' = Connected(recovered_path)
              /\ pc' = next
              /\ UNCHANGED <<files, recovered_path, ok, raised>>
         ELSE /\ files' = Unlinked(files, {recovered_path})
              /\ recovered_path' = ""
              /\ LastTryNew(next)
  /\ UNCHANGED <<files0, nextTmp, dbTemps, recovered_old_path, old_conn, out_conn, recover,
                 merge_new_items, output_path, canOpen, canQuery>>
  /\ RecoverIdle
  /\ UNCHANGED <<ivars, dbvars, nkvars, tvars, stats, retry_stats>>
  /\ UNCHANGED avars

(***************************************************************************)
(* run_merge (lines 60-160).                                               *)
(***************************************************************************)
MergeValidate == Validate("m_start", "m_open_old")
MergeOpenOld == OpenOld("m_open_old", "m_old_recovered", "m_copy")
MergeOldRecovered == OldRecovered("m_old_recovered", "m_copy")
MergeOpenNew == OpenNew("m_open_new", "m_new_recovered", "m_merge")
MergeNewRecovered == NewRecovered("m_new_recovered", "m_merge")

\* line 101: the file shutil.copy2 reads
CopySource == IF recovered_old_path = "" THEN "old" ELSE recovered_old_path

\* lines 101-104: copy old (or its recovered copy) to output_path and connect to
\* it.  copy2 raises when source and destination are the same file, and may
\* fail otherwise (no directory, no permission); the exception is caught at
\* line 156 and the call returns failure.
MergeCopy ==
  /\ pc = "m_copy"
  /\ \E fails \in (IF CopySource = output_path THEN {TRUE} ELSE BOOLEAN) :
       IF fails
         THEN /\ Ends(FALSE, FALSE)
              /\ UNCHANGED <<files, out_conn>>
         ELSE /\ files' = [files EXCEPT ![output_path] = files[CopySource]]
              /\ out_conn' = Connected(output_path)
              /\ pc' = "m_open_new"
              /\ UNCHANGED <<ok, raised>>
  /\ UNCHANGED <<files0, nextTmp, dbTemps, recovered_old_path, recovered_path, old_conn,
                 new_conn, recover, merge_new_items, output_path, canOpen, canQuery>>
  /\ RecoverIdle
  /\ UNCHANGED <<ivars, dbvars, nkvars, tvars, stats, retry_stats>>
  /\ UNCHANGED avars

\* lines 128-158: the merge itself, the integrity check, and the finally clause
\* that closes the three connections and unlinks the recovered copies.  A
\* database error or another exception raised by the merge is caught at lines
\* 153-158; the output may have been written before it.
MergeRun ==
  /\ pc = "m_merge"
  /\ \E outcome \in ReadOutcomes \cup {"error"}, wrote \in BOOLEAN :
       /\ (outcome = "ok") => wrote
       /\ files' = Unlinked(IF wrote THEN [files EXCEPT ![output_path] = "MERGED"] ELSE files,
                            {recovered_path, recovered_old_path})
       /\ Ends(outcome = "ok", FALSE)
  /\ old_conn' = Closed(old_conn)
  /\ new_conn' = Closed(new_conn)
  /\ out_conn' = Closed(out_conn)
  /\ UNCHANGED <<files0, nextTmp, dbTemps, recovered_old_path, recovered_path, recover,
                 merge_new_items, output_path, canOpen, canQuery>>
  /\ RecoverIdle
  /\ UNCHANGED <<ivars, dbvars, nkvars, tvars, stats, retry_stats>>
  /\ UNCHANGED avars

MergeNext ==
  \/ MergeValidate \/ MergeOpenOld \/ MergeOldRecovered \/ MergeCopy
  \/ MergeOpenNew \/ MergeNewRecovered \/ MergeRun \/ RecoverNext

\* the guids of a metadata_items table
Guids(meta) == {r.guid : r \in meta.rows} \ {NoGuid}

\* lines 233-236 of _count_stats: new_metadata_items_to_add, the number of
\* distinct non-empty guids of new that are no key of guid_to_id_old
NewMetadataItemsToAdd(new_meta, old_meta) ==
  IF table_exists(new_meta) /\ table_exists(old_meta)
    THEN Cardinality(Guids(new_meta) \ DOMAIN GuidToIdOld(old_meta))
    ELSE 0

\* line 175: the stats dictionary preview_merge starts with
ZeroStats == [views_to_add |-> 0, settings_to_add |-> 0, new_metadata_items_to_add |-> 0]

\* lines 224-226, 229-231: the rows whose guid is not empty and is a key of
\* guid_to_id_old
CountResolved(q, g2i) ==
  Cardinality({i \in 1..Len(q) : q[i].guid # NoGuid /\ ResolvesInOld(g2i, q[i].guid)})

\* _count_stats (lines 218-236) applied to the dictionary st: what it holds
\* when the count has got through "steps" of its three steps (the views, the
\* settings, the new items) before a read raises; 3: it returned
CountStats(st, o_meta, n_views, n_settings, n_meta, with_items, steps) ==
  IF ~table_exists(o_meta) THEN st
  ELSE LET guid_to_id_old == GuidToIdOld(o_meta)
       IN [views_to_add |->
             st.views_to_add + (IF steps >= 1 /\ table_exists(n_views)
                                  THEN CountResolved(n_views.rows, guid_to_id_old) ELSE 0),
           settings_to_add |->
             st.settings_to_add + (IF steps >= 2 /\ table_exists(n_settings)
                                     THEN CountResolved(n_settings.rows, guid_to_id_old) ELSE 0),
           new_metadata_items_to_add |->
             IF steps >= 3 /\ with_items /\ table_exists(n_meta)
               THEN NewMetadataItemsToAdd(n_meta, o_meta)
               ELSE st.new_metadata_items_to_add]

\* old: one item with a guid, one without
OldMetaRows ==
  { [id |-> 1, section |-> 1, parent |-> NoId, guid |-> "g1"],
    [id |-> 2, section |-> 1, parent |-> 1, guid |-> NoGuid] }

Present(rows) == [exists |-> TRUE, rows |-> rows]

\* the tables the count of a preview reads: old holds the item g1; new holds
\* two views and one setting of g1, a view of an item old does not have, and
\* two items of its own.  A database rebuilt from an empty script ("DB0") or
\* never written holds no table.
PreviewNewViewRows ==
  << [acct |-> 1, guid |-> "g1", at |-> 1], [acct |-> 1, guid |-> "g1", at |-> 2],
     [acct |-> 1, guid |-> "n1", at |-> 1] >>
PreviewNewSettingRows == << [acct |-> 1, guid |-> "g1", val |-> 2] >>
PreviewNewMetaRows ==
  { [id |-> 1, section |-> 1, parent |-> NoId, guid |-> "n1"],
    [id |-> 2, section |-> 1, parent |-> NoId, guid |-> "n2"],
    [id |-> 3, section |-> 1, parent |-> NoId, guid |-> "g1"] }

HasTables(c) == files[c.path] \in {"OLD", "NEW", "DB"}

\* _count_stats(old_conn, new_conn) on the databases behind the two connections
CountOverConns(st, steps) ==
  CountStats(st,
             IF HasTables(old_conn) THEN Present(OldMetaRows) ELSE NoTable,
             IF HasTables(new_conn) THEN Present(PreviewNewViewRows) ELSE NoTableSeq,
             IF HasTables(new_conn) THEN Present(PreviewNewSettingRows) ELSE NoTableSeq,
             IF HasTables(new_conn) THEN Present(PreviewNewMetaRows) ELSE NoTable,
             merge_new_items, steps)

\* how far a count that ends with a read error can have got: nowhere when a
\* database cannot be read at all; the last read of the count is that of the
\* new items, made only with merge_new_items
StepsBeforeError ==
  IF Readable(old_conn) /\ Readable(new_conn)
    THEN 0..(IF merge_new_items THEN 2 ELSE 1)
    ELSE {0}

(***************************************************************************)
(* preview_merge (lines 163-298).                                          *)
(***************************************************************************)
PreviewValidate == Validate("p_start", "p_open_old")
PreviewOpenOld == OpenOld("p_open_old", "p_old_recovered", "p_open_new")
PreviewOldRecovered == OldRecovered("p_old_recovered", "p_open_new")
PreviewOpenNew == OpenNew("p_open_new", "p_new_recovered", "p_count1")
PreviewNewRecovered == NewRecovered("p_new_recovered", "p_count1")

\* lines 238-255 and 291-298: the first count.  If it succeeds, the finally
\* clause closes both connections and unlinks the recovered copies.  If a read
\* fails (sqlite3.DatabaseError), both connections are closed, the recovered
\* copies unlinked, two new temporary files made, and old is recovered.
PreviewCount ==
  /\ pc = "p_count1"
  /\ old_conn' = Closed(old_conn)
  /\ new_conn' = Closed(new_conn)
  /\ UNCHANGED retry_stats
  /\ \E outcome \in ReadOutcomes :
       IF outcome = "ok"
         THEN /\ files' = Unlinked(files, {recovered_path, recovered_old_path})
              /\ stats' = CountOverConns(stats, 3)
              /\ Ends(TRUE, FALSE)
              /\ UNCHANGED <<nextTmp, dbTemps, recovered_old_path, recovered_path>>
              /\ RecoverIdle
         ELSE /\ recovered_old_path' = TmpNames[nextTmp]
              /\ recovered_path' = TmpNames[nextTmp + 1]
              /\ nextTmp' = nextTmp + 2
              /\ dbTemps' = dbTemps \cup {TmpNames[nextTmp], TmpNames[nextTmp + 1]}
              /\ files' = [Unlinked(files, {recovered_path, recovered_old_path})
                             EXCEPT ![TmpNames[nextTmp]] = "EMPTY",
                                    ![TmpNames[nextTmp + 1]] = "EMPTY"]
              /\ \E steps \in StepsBeforeError : stats' = CountOverConns(stats, steps)
              /\ CallRecover("old", TmpNames[nextTmp], "p_retry_old")
              /\ UNCHANGED <<ok, raised>>
  /\ UNCHANGED <<files0, out_conn, recover, merge_new_items, output_path, canOpen, canQuery>>
  /\ UNCHANGED <<ivars, dbvars, nkvars, tvars>>
  /\ UNCHANGED avars

\* line 256, first operand: the recovery of old has returned
PreviewRetryOld ==
  /\ pc = "p_retry_old"
  /\ IF ~r_ret
       THEN /\ files' = Unlinked(files, {recovered_path, recovered_old_path})
            /\ Ends(FALSE, FALSE)
            /\ RecoverIdle
       ELSE /\ CallRecover("new", recovered_path, "p_retry_new")
            /\ UNCHANGED <<files, ok, raised>>
  /\ UNCHANGED <<files0, nextTmp, dbTemps, recovered_old_path, recovered_path, old_conn,
                 new_conn, out_conn, recover, merge_new_items, output_path, canOpen, canQuery>>
  /\ UNCHANGED <<ivars, dbvars, nkvars, tvars, stats, retry_stats>>
  /\ UNCHANGED avars

\* lines 256-274 and 291-293: the recovery of new has returned.  When one of
\* the recovered files does not open, the files are unlinked and "return
\* False, ..." is reached, but the finally clause then calls close() on the
\* connection that is None: the call ends with AttributeError.
PreviewRetryNew ==
  /\ pc = "p_retry_new"
  /\ IF ~r_ret
       THEN /\ files' = Unlinked(files, {recovered_path, recovered_old_path})
            /\ Ends(FALSE, FALSE)
            /\ UNCHANGED <<old_conn, new_conn>>
       ELSE \E o1 \in TryOpenOutcomes(recovered_old_path),
               o2 \in TryOpenOutcomes(recovered_path) :
              IF o1 /\ o2
                THEN /\ old_conn' = Connected(recovered_old_path)
                     /\ new_conn' = Connected(recovered_path)
                     /\ pc' = "p_count2"
                     /\ UNCHANGED <<files, ok, raised>>
                ELSE /\ old_conn' = IF o1 THEN Closed(Connected(recovered_old_path))
                                    ELSE NoConn
                     /\ new_conn' = IF o2 THEN Closed(Connected(recovered_path))
                                    ELSE NoConn
                     /\ files' = Unlinked(files, {recovered_path, recovered_old_path})
                     /\ Ends(FALSE, TRUE)
  /\ UNCHANGED <<files0, nextTmp, dbTemps, recovered_old_path, recovered_path, out_conn,
                 recover, merge_new_items, output_path, canOpen, canQuery>>
  /\ RecoverIdle
  /\ UNCHANGED <<ivars, dbvars, nkvars, tvars, stats, retry_stats>>
  /\ UNCHANGED avars

\* a second count that, when it fails too, starts over with another count
PreviewRecountAgain ==
  /\ pc = "p_count2"
  /\ old_conn' = Closed(old_conn)
  /\ new_conn' = Closed(new_conn)
  /\ files' = Unlinked(files, {recovered_path, recovered_old_path})
  /\ \E outcome \in {"ok", "dberror"} :
       IF outcome = "ok"
         THEN /\ Ends(TRUE, FALSE)
              /\ stats' = CountOverConns(stats, 3)
              /\ retry_stats' = [retried |-> TRUE, stats |-> CountOverConns(ZeroStats, 3)]
         ELSE /\ pc' = "p_count1" /\ UNCHANGED <<ok, raised>>
              /\ \E steps \in StepsBeforeError :
                   /\ stats' = CountOverConns(stats, steps)
                   /\ retry_stats' = [retried |-> TRUE, stats |-> CountOverConns(ZeroStats, steps)]
  /\ UNCHANGED <<files0, nextTmp, dbTemps, recovered_old_path, recovered_path, out_conn,
                 recover, merge_new_items, output_path, canOpen, canQuery>>
  /\ RecoverIdle
  /\ UNCHANGED <<ivars, dbvars, nkvars, tvars>>
  /\ UNCHANGED avars

\* lines 275-298: the second count, with its own finally clause
PreviewRecount ==
  /\ pc = "p_count2"
  /\ old_conn' = Closed(old_conn)
  /\ new_conn' = Closed(new_conn)
  /\ files' = Unlinked(files, {recovered_path, recovered_old_path})
  /\ \E outcome \in ReadOutcomes :
       /\ Ends(outcome = "ok", FALSE)
       /\ \E steps \in (IF outcome = "ok" THEN {3} ELSE StepsBeforeError) :
            /\ stats' = CountOverConns(stats, steps)
            /\ retry_stats' = [retried |-> TRUE, stats |-> CountOverConns(ZeroStats, steps)]
  /\ UNCHANGED <<files0, nextTmp, dbTemps, recovered_old_path, recovered_path, out_conn,
                 recover, merge_new_items, output_path, canOpen, canQuery>>
  /\ RecoverIdle
  /\ UNCHANGED <<ivars, dbvars, nkvars, tvars>>
  /\ UNCHANGED avars

PreviewNext ==
  \/ PreviewValidate \/ PreviewOpenOld \/ PreviewOldRecovered \/ PreviewOpenNew
  \/ PreviewNewRecovered \/ PreviewCount \/ PreviewRetryOld \/ PreviewRetryNew
  \/ PreviewRecount \/ RecoverNext

\* ---- the web front end before the first request
MaxRequests == 2
MaxJobLines == 1

Requests == 1..MaxRequests

\* lines 21, 23: the two job states when the process starts
JobStateIdle == [status |-> "idle", job |-> 0, log_file |-> 0]

AppIdle ==
  /\ state = JobStateIdle /\ compare_state = JobStateIdle
  /\ lock = 0 /\ log_callback = "None"
  /\ req = [r \in Requests |-> [kind |-> "none", pc |-> "idle"]]
  /\ job = [r \in Requests |-> [pc |-> "none", lines |-> 0, raised |-> FALSE]]
  /\ misrouted = {} /\ closedOther = {}

(***************************************************************************)
(* Initial states and specifications.                                      *)
(***************************************************************************)
NKIdle == nkRuns = 0 /\ views_added = 0 /\ settings_added = 0

\* run_merge and preview_merge at rest, the option merge_new_items left open
OrchQuiet ==
  /\ pc = "idle" /\ files = [p \in Paths |-> "none"] /\ files0 = files
  /\ nextTmp = 1 /\ dbTemps = {}
  /\ recovered_old_path = "" /\ recovered_path = ""
  /\ old_conn = NoConn /\ new_conn = NoConn /\ out_conn = NoConn
  /\ recover = FALSE /\ output_path = "out"
  /\ canOpen = {} /\ canQuery = {} /\ ok = FALSE /\ raised = FALSE
  /\ rpc = "idle" /\ r_path = "" /\ r_out = "" /\ sql_path = "" /\ r_after = ""
  /\ r_ret = FALSE /\ r_build = "none"
  /\ stats = ZeroStats /\ retry_stats = [retried |-> FALSE, stats |-> ZeroStats]

OrchIdle == OrchQuiet /\ merge_new_items = FALSE

\* the state in which run_merge or preview_merge is called
OrchInit(start, outputs) ==
  /\ pc = start
  /\ \E o \in {"OLD", "none"}, n \in {"NEW", "none"}, x \in {"PRE", "none"} :
       files = [p \in Paths |-> IF p = "old" THEN o ELSE IF p = "new" THEN n
                                ELSE IF p = "out" THEN x ELSE "none"]
  /\ files0 = files
  /\ nextTmp = 1 /\ dbTemps = {}
  /\ recovered_old_path = "" /\ recovered_path = ""
  /\ old_conn = NoConn /\ new_conn = NoConn /\ out_conn = NoConn
  /\ recover \in BOOLEAN /\ merge_new_items \in BOOLEAN
  /\ output_path \in outputs
  /\ canOpen \in SUBSET {"OLD", "NEW"}
  /\ canQuery \in SUBSET canOpen
  /\ ok = FALSE /\ raised = FALSE
  /\ rpc = "idle" /\ r_path = "" /\ r_out = "" /\ sql_path = "" /\ r_after = ""
  /\ r_ret = FALSE /\ r_build = "none"
  /\ stats = ZeroStats /\ retry_stats = [retried |-> FALSE, stats |-> ZeroStats]

\* the import has not been run on another order of the rows
FirstRun == [n |-> 1, inserted |-> {}, taken |-> {}, skipped |-> {}]

ItemsIdle ==
  /\ tpc = "idle" /\ to_add = <<>> /\ new_meta_id_to_old = <<>> /\ added = {}
  /\ progress = 0 /\ ti = 0 /\ preIds = {} /\ meta_added = 0
  /\ order_run = FirstRun

DbIdle ==
  /\ oldMeta = NoTable /\ oldSections = {} /\ newMeta = NoTable
  /\ newViews = NoTableSeq /\ newSettings = NoTableSeq /\ outMeta = {}
  /\ outViews = NoTable /\ outSettings = NoTable /\ outMedia = NoMedia
  /\ viewsUnique = FALSE /\ settingsUnique = FALSE

\* ---- natural-key merge
MaxNewViews == 2
MaxNewSettings == 2

NewGuidChoice == {"g1", "g2", NoGuid}
ViewRowPool == {[acct |-> 1, guid |-> g, at |-> 1] : g \in NewGuidChoice}
SettingRowPool == {[acct |-> 1, guid |-> g, val |-> v] : g \in NewGuidChoice, v \in 1..2}

\* a table that declares UNIQUE(account_id, guid) holds one row per key
KeysDistinct(q) ==
  \A i, j \in 1..Len(q) : (q[i].acct = q[j].acct /\ q[i].guid = q[j].guid) => i = j

NKInit ==
  /\ oldMeta \in {NoTable, Present(OldMetaRows)}
  /\ oldSections = {1}
  /\ newMeta = NoTable
  /\ outMeta = {[id |-> r.id, section |-> r.section, parent |-> r.parent,
                 guid |-> r.guid, src |-> NoId] : r \in OldMetaRows}
  /\ viewsUnique \in BOOLEAN
  /\ settingsUnique \in BOOLEAN
  /\ newViews \in {NoTableSeq} \cup {Present(q) : q \in SeqsUpTo(ViewRowPool, MaxNewViews)}
  /\ newSettings \in {NoTableSeq} \cup
       {Present(q) : q \in {x \in SeqsUpTo(SettingRowPool, MaxNewSettings) :
                              settingsUnique => KeysDistinct(x)}}
  /\ outViews \in {NoTable, Present({}),
                   Present({[id |-> 1, acct |-> 1, guid |-> "g1", at |-> 1]})}
  /\ outSettings \in {NoTable, Present({})} \cup
       {Present({[id |-> 1, acct |-> 1, guid |-> "g1", val |-> v]}) : v \in 1..2}
  /\ outMedia = OldMedia
  /\ NKIdle /\ ItemsIdle /\ ImportIdle /\ OrchIdle /\ AppIdle

NKNext == MergeWatchHistoryAndSettings

SpecNK == NKInit /\ [][NKNext]_vars

\* ---- item import
MaxNewRows == 2

OwnGuid == <<"n1", "n2", "n3", "n4", "n5", "n6">>

NewRowChoice(id) ==
  {[id |-> id, section |-> s, parent |-> p, guid |-> g] :
     s \in {NoId, 1, 2}, p \in {NoId} \cup 1..MaxNewRows,
     g \in {"g1", NoGuid, OwnGuid[id], "dup"}}

RECURSIVE NewTables(_)
NewTables(n) ==
  IF n = 0 THEN {{}}
  ELSE {t \cup {r} : t \in NewTables(n - 1), r \in NewRowChoice(n)}

ItemsInit ==
  /\ oldMeta = Present(OldMetaRows)
  /\ oldSections = {1}
  /\ newMeta \in {NoTable} \cup {Present(t) : t \in NewTables(MaxNewRows)}
  /\ outMeta = {[id |-> r.id, section |-> r.section, parent |-> r.parent,
                 guid |-> r.guid, src |-> NoId] : r \in OldMetaRows}
  /\ newViews = NoTableSeq /\ newSettings = NoTableSeq
  /\ outViews = NoTable /\ outSettings = NoTable /\ outMedia = OldMedia
  /\ viewsUnique = FALSE /\ settingsUnique = FALSE
  /\ tpc = "start" /\ to_add = <<>> /\ new_meta_id_to_old = <<>> /\ added = {}
  /\ progress = 0 /\ ti = 0 /\ preIds = {} /\ meta_added = 0
  /\ order_run = FirstRun
  /\ NKIdle /\ ImportIdle /\ OrchIdle /\ AppIdle

ItemsNext == ItemsBegin \/ ItemsVisit \/ ItemsPassEnd \/ ItemsMedia \/ ItemsReturn

SpecItems == ItemsInit /\ [][ItemsNext]_vars

\* ---- item import on the same items stored in another order: the SELECT of
\* lines 621-628 has no ORDER BY, the rows come in the order of their ids
\* the candidates for which the INSERT of lines 668-677 was executed
TakenUp ==
  {to_add[k].id : k \in {j \in 1..Len(to_add) :
      to_add[j].id \in added /\ SectionKnown(to_add[j].section, oldSections)}}

\* the candidates passed over at lines 657-661
SkippedForSection ==
  {to_add[k].id : k \in {j \in 1..Len(to_add) :
      to_add[j].id \in added /\ ~SectionKnown(to_add[j].section, oldSections)}}

\* the rows of a metadata_items table under other ids: perm maps the id a row
\* has to the id it gets, parent_id follows
Reordered(rows, perm) ==
  {[id |-> perm[r.id], section |-> r.section,
    parent |-> IF r.parent \in DOMAIN perm THEN perm[r.parent] ELSE r.parent,
    guid |-> r.guid] : r \in rows}

\* the import has ended; it is run again on a new that holds the same items
\* under other ids, and on output as it was before
ItemsReorder ==
  /\ tpc \in {"done", "raised"} /\ order_run.n = 1
  /\ table_exists(newMeta)
  /\ \E perm \in Permutations({r.id : r \in newMeta.rows}) :
       /\ \E i \in DOMAIN perm : perm[i] # i
       /\ newMeta' = Present(Reordered(newMeta.rows, perm))
       /\ order_run' = [n |-> 2,
                        inserted |-> {perm[r.src] : r \in {q \in outMeta : q.src # NoId}},
                        taken |-> {perm[i] : i \in TakenUp},
                        skipped |-> {perm[i] : i \in SkippedForSection}]
  /\ outMeta' = {r \in outMeta : r.src = NoId}
  /\ outMedia' = OldMedia
  /\ tpc' = "start" /\ to_add' = <<>> /\ new_meta_id_to_old' = <<>> /\ added' = {}
  /\ progress' = 0 /\ ti' = 0 /\ preIds' = {} /\ meta_added' = 0
  /\ UNCHANGED <<oldMeta, oldSections, newViews, newSettings, outViews, outSettings,
                 viewsUnique, settingsUnique>>
  /\ UNCHANGED <<ivars, ovars, nkvars>>
  /\ UNCHANGED avars

OrderNext ==
  \/ ItemsBegin \/ ItemsVisit \/ ItemsPassEnd \/ ItemsMedia \/ ItemsReturn
  \/ ItemsReorder

SpecOrder == ItemsInit /\ [][OrderNext]_vars

\* merge_new_library_items is sequential code: whenever it has a next step it
\* takes it
SpecItemsLive == SpecItems /\ WF_vars(ItemsNext)

\* ---- the merge proper of run_merge: output starts as the copy of old
\* (line 101); new holds items of its own, one of them in a library section
\* old does not have, and watch history and settings for an item of old (g1)
\* and for an item of its own (n1)
FullNewRowPool ==
  { [id |-> 1, section |-> 1, parent |-> NoId, guid |-> "n1"],
    [id |-> 2, section |-> 2, parent |-> NoId, guid |-> "n2"],
    [id |-> 3, section |-> 1, parent |-> 2, guid |-> "n3"] }

FullViewPool == {[acct |-> 1, guid |-> g, at |-> 1] : g \in {"g1", "n1"}}
FullSettingPool == {[acct |-> 1, guid |-> g, val |-> 2] : g \in {"g1", "n1"}}

\* the watch history and the settings old holds
OldViewRows == {[id |-> 1, acct |-> 1, guid |-> "g1", at |-> 1]}
OldSettingRows == {[id |-> 1, acct |-> 1, guid |-> "g1", val |-> 1]}

FullInit ==
  /\ oldMeta = Present(OldMetaRows)
  /\ oldSections = {1}
  /\ newMeta \in {Present(t) : t \in SUBSET FullNewRowPool}
  /\ outMeta = {[id |-> r.id, section |-> r.section, parent |-> r.parent,
                 guid |-> r.guid, src |-> NoId] : r \in OldMetaRows}
  /\ viewsUnique \in BOOLEAN
  /\ settingsUnique \in BOOLEAN
  /\ newViews \in {Present(q) : q \in SeqsUpTo(FullViewPool, MaxNewViews)}
  /\ newSettings \in {Present(q) : q \in {x \in SeqsUpTo(FullSettingPool, MaxNewSettings) :
                                           settingsUnique => KeysDistinct(x)}}
  /\ outViews \in {Present({}), Present(OldViewRows)}
  /\ outSettings \in {Present({}), Present(OldSettingRows)}
  /\ outMedia = OldMedia
  /\ tpc = "wait" /\ to_add = <<>> /\ new_meta_id_to_old = <<>> /\ added = {}
  /\ progress = 0 /\ ti = 0 /\ preIds = {} /\ meta_added = 0
  /\ order_run = FirstRun
  /\ NKIdle /\ ImportIdle /\ OrchQuiet /\ merge_new_items \in BOOLEAN /\ AppIdle

FullNext ==
  \/ FullNaturalKey \/ FullItemsCall
  \/ ItemsBegin \/ ItemsVisit \/ ItemsPassEnd \/ ItemsMedia \/ ItemsReturn

SpecFull == FullInit /\ [][FullNext]_vars

\* ---- statement-skipping import
ImportStart == ImportInit /\ DbIdle /\ NKIdle /\ ItemsIdle /\ OrchIdle /\ AppIdle

ImportNext == ImportLine \/ ImportEnd \/ ImportReadError

SpecImport == ImportStart /\ [][ImportNext]_vars

\* ---- run_merge: output_path may name a file of its own, old_path or new_path
MergeInit ==
  /\ OrchInit("m_start", {"out", "old", "new"})
  /\ DbIdle /\ NKIdle /\ ItemsIdle /\ ImportIdle /\ AppIdle

SpecMerge == MergeInit /\ [][MergeNext]_vars

\* ---- preview_merge: it has no output_path
PreviewInit ==
  /\ OrchInit("p_start", {"out"})
  /\ DbIdle /\ NKIdle /\ ItemsIdle /\ ImportIdle /\ AppIdle

SpecPreview == PreviewInit /\ [][PreviewNext]_vars

\* ---- a call of either: run_merge or preview_merge
CallsInit == MergeInit \/ PreviewInit

CallsNext == MergeNext \/ PreviewNext

SpecCalls == CallsInit /\ [][CallsNext]_vars

(***************************************************************************)
(* The web front end (src/app.py): the handlers of POST /run and POST      *)
(* /compare and the threads do_merge and do_compare they start.  Requests  *)
(* are numbered; the thread a request starts carries its number.           *)
(***************************************************************************)
EngineIdle == UNCHANGED <<ivars, dbvars, nkvars, tvars, ovars>>

\* lines 63-70, 117-124: a request arrives at /run or /compare and its body is
\* read
Arrive(r) ==
  /\ req[r].pc = "idle"
  /\ \A q \in Requests : q < r => req[q].pc # "idle"
  /\ \E kind \in {"run", "compare"} : req' = [req EXCEPT ![r] = [kind |-> kind, pc |-> "lock"]]
  /\ UNCHANGED <<state, compare_state, lock, log_callback, job, misrouted, closedOther>>
  /\ EngineIdle

\* lines 72, 126: "with _lock:"
Enter(r) ==
  /\ req[r].pc = "lock"
  /\ lock = 0
  /\ lock' = r
  /\ req' = [req EXCEPT ![r].pc = "check"]
  /\ UNCHANGED <<state, compare_state, log_callback, job, misrouted, closedOther>>
  /\ EngineIdle

\* a handler that looks at the merge job only
BusyMerge == state.status = "running"

\* lines 73-76, 127-130: a job of either kind is running
Busy == state.status = "running" \/ compare_state.status = "running"

\* lines 73-76, 127-130: the request is refused with status 400
Reject(r) ==
  /\ req[r].pc = "check" /\ lock = r
  /\ Busy
  /\ req' = [req EXCEPT ![r].pc = "rejected"]
  /\ lock' = 0
  /\ UNCHANGED <<state, compare_state, log_callback, job, misrouted, closedOther>>
  /\ EngineIdle

\* lines 77-87, 131-141: the job state is reset to "running" and the log file
\* is opened.  os.makedirs in _log_file_path (line 30) is outside the try
\* block: when it raises the handler ends there with the job state "running",
\* the log_file key as it was and no thread; when open raises OSError the
\* log_file is None.
Started(st, r, outcome) ==
  [status |-> "running", job |-> r,
   log_file |-> CASE outcome = "opened" -> r
                  [] outcome = "no_file" -> 0
                  [] OTHER -> st.log_file]

Admit(r) ==
  /\ req[r].pc = "check" /\ lock = r
  /\ ~Busy
  /\ \E outcome \in {"opened", "no_file", "makedirs_raised"} :
       /\ IF req[r].kind = "run"
            THEN state' = Started(state, r, outcome) /\ UNCHANGED compare_state
            ELSE compare_state' = Started(compare_state, r, outcome) /\ UNCHANGED state
       /\ req' = [req EXCEPT ![r].pc = IF outcome = "makedirs_raised" THEN "error"
                                       ELSE "spawn"]
  /\ lock' = 0
  /\ UNCHANGED <<log_callback, job, misrouted, closedOther>>
  /\ EngineIdle

\* lines 112-114, 172-174: thread.start() and the answer {"ok": true}
Spawn(r) ==
  /\ req[r].pc = "spawn"
  /\ req' = [req EXCEPT ![r].pc = "accepted"]
  /\ job' = [job EXCEPT ![r].pc = "begin"]
  /\ UNCHANGED <<state, compare_state, lock, log_callback, misrouted, closedOther>>
  /\ EngineIdle

\* the callback the thread of a job installs
CallbackOf(kind) == IF kind = "run" THEN "_append_log" ELSE "_append_compare_log"

\* do_merge: run_merge lines 73-74 (_log_callback = log_callback); do_compare:
\* line 145 of app.py
Begin(r) ==
  /\ job[r].pc = "begin"
  /\ log_callback' = CallbackOf(req[r].kind)
  /\ job' = [job EXCEPT ![r].pc = "engine"]
  /\ UNCHANGED <<state, compare_state, lock, req, misrouted, closedOther>>
  /\ EngineIdle

\* the job whose log a line handed to the callback cb is appended to (lines
\* 34-55 of app.py), 0 when the line is printed (line 44 of plex_db_merge.py)
LogOf(cb) ==
  CASE cb = "_append_log" -> state.job
    [] cb = "_append_compare_log" -> compare_state.job
    [] OTHER -> 0

\* log(msg) in the engine (plex_db_merge.py lines 38-44): the line goes to
\* whatever _log_callback is at that moment; the callbacks take _lock
Emit(r) ==
  /\ job[r].pc = "engine" /\ job[r].lines < MaxJobLines
  /\ log_callback # "None" => lock = 0
  /\ misrouted' = IF LogOf(log_callback) = r THEN misrouted ELSE misrouted \cup {r}
  /\ job' = [job EXCEPT ![r].lines = @ + 1]
  /\ UNCHANGED <<state, compare_state, lock, log_callback, req, closedOther>>
  /\ EngineIdle

\* run_merge / preview_merge ends, by returning or by raising.  run_merge
\* catches Exception (lines 153-158) but calls log in its except clauses: what
\* the callback raises there (the write to the log file, line 40 of app.py,
\* guards against OSError only) leaves run_merge.  run_merge resets
\* _log_callback in its finally clause (line 160) whichever way it ends;
\* preview_merge leaves it alone.
EngineEnd(r) ==
  /\ job[r].pc = "engine"
  /\ \E raises \in BOOLEAN :
       job' = [job EXCEPT ![r].pc = IF raises THEN "raised" ELSE "returned",
                          ![r].raised = raises]
  /\ log_callback' = IF req[r].kind = "run" THEN "None" ELSE log_callback
  /\ UNCHANGED <<state, compare_state, lock, req, misrouted, closedOther>>
  /\ EngineIdle

\* the job state with the status "done" (lines 100-102, 151-154, 159-162)
Done(st) == [st EXCEPT !.status = "done"]

\* lines 99-102 of do_merge, 150-154 of do_compare: the call returned
SetDone(r) ==
  /\ job[r].pc = "returned"
  /\ lock = 0
  /\ IF req[r].kind = "run"
       THEN state' = Done(state) /\ UNCHANGED compare_state
       ELSE compare_state' = Done(compare_state) /\ UNCHANGED state
  /\ job' = [job EXCEPT ![r].pc = IF req[r].kind = "run" THEN "close" ELSE "reset"]
  /\ UNCHANGED <<lock, log_callback, req, misrouted, closedOther>>
  /\ EngineIdle

\* do_merge has no except clause: an exception of run_merge goes to the finally
\* clause of line 103 and the status is left as it is
MergeRaised(r) ==
  /\ job[r].pc = "raised" /\ req[r].kind = "run"
  /\ job' = [job EXCEPT ![r].pc = "close"]
  /\ UNCHANGED <<state, compare_state, lock, log_callback, req, misrouted, closedOther>>
  /\ EngineIdle

\* lines 155-156 of do_compare: plex_db_merge._log_callback = None, after the
\* status was set or on the way to the except clause
CompareReset(r) ==
  /\ job[r].pc \in {"reset", "raised"} /\ req[r].kind = "compare"
  /\ log_callback' = "None"
  /\ job' = [job EXCEPT ![r].pc = IF job[r].pc = "raised" THEN "except" ELSE "close"]
  /\ UNCHANGED <<state, compare_state, lock, req, misrouted, closedOther>>
  /\ EngineIdle

\* lines 157-162 of do_compare: except Exception
CompareExcept(r) ==
  /\ job[r].pc = "except"
  /\ lock = 0
  /\ compare_state' = Done(compare_state)
  /\ job' = [job EXCEPT ![r].pc = "close"]
  /\ UNCHANGED <<state, lock, log_callback, req, misrouted, closedOther>>
  /\ EngineIdle

\* lines 103-110, 163-170: the finally clause closes whatever file is under
\* the log_file key of the job's kind and sets the key to None
Close(r) ==
  /\ job[r].pc = "close"
  /\ lock = 0
  /\ LET st == IF req[r].kind = "run" THEN state ELSE compare_state
     IN /\ closedOther' = IF st.log_file \in {0, r} THEN closedOther
                          ELSE closedOther \cup {r}
        /\ IF req[r].kind = "run"
             THEN state' = [state EXCEPT !.log_file = 0] /\ UNCHANGED compare_state
             ELSE compare_state' = [compare_state EXCEPT !.log_file = 0] /\ UNCHANGED state
  /\ job' = [job EXCEPT ![r].pc = "end"]
  /\ UNCHANGED <<lock, log_callback, req, misrouted>>
  /\ EngineIdle

\* a step of the handler of request r
HandlerStep(r) == Enter(r) \/ Reject(r) \/ Admit(r) \/ Spawn(r)

\* a step of the thread request r started
JobStep(r) ==
  \/ Begin(r) \/ Emit(r) \/ EngineEnd(r) \/ SetDone(r) \/ MergeRaised(r)
  \/ CompareReset(r) \/ CompareExcept(r) \/ Close(r)

AppInit == AppIdle /\ ImportIdle /\ DbIdle /\ NKIdle /\ ItemsIdle /\ OrchIdle

AppNext ==
  \E r \in Requests :
    \/ Arrive(r) \/ Enter(r) \/ Reject(r) \/ Admit(r) \/ Spawn(r)
    \/ Begin(r) \/ Emit(r) \/ EngineEnd(r) \/ SetDone(r) \/ MergeRaised(r)
    \/ CompareReset(r) \/ CompareExcept(r) \/ Close(r)

SpecApp == AppInit /\ [][AppNext]_vars

\* the handlers and the threads are scheduled: whichever has a next step
\* takes it in the end, and the engine call of a job ends
SpecAppLive == SpecApp /\ \A r \in Requests : WF_vars(JobStep(r)) /\ WF_vars(HandlerStep(r))



(***************************************************************************)
(* The claims.                                                             *)
(***************************************************************************)

\* C1 (SpecMerge): when a call of run_merge has returned, on whatever exit
\* path, every temporary recovered-database file the call created (for old
\* and for new) has been deleted.
C1_MergeTempsDeleted ==
  pc = "done" => \A t \in dbTemps : files[t] = "none"

\* the temporary files handed out so far: recovered databases and SQL scripts
TempsCreated == {TmpNames[k] : k \in 1..(nextTmp - 1)}

\* C2 (SpecPreview): when a call of preview_merge has ended, on whatever exit
\* path, every temporary file the call created (recovered databases and the
\* SQL scripts of recover_db) has been deleted.
C2_PreviewTempsDeleted ==
  pc = "done" => \A t \in TempsCreated : files[t] = "none"

\* C3 (SpecMerge): for any old_path, new_path and output_path (output_path
\* equal to new_path or to old_path included), after run_merge the files at
\* old_path and new_path hold what they held before the call.
C3_MergeKeepsInputs ==
  pc = "done" => (files["old"] = files0["old"] /\ files["new"] = files0["new"])

\* C4 (SpecPreview): preview_merge performs no writes: at every point of the
\* call, whatever its inputs and outcome, the files at old_path and new_path
\* and every other file that existed before the call hold what they held
\* before it, and no file but the call's own temporary files is created.
C4_PreviewWritesNothing ==
  \A p \in NamedPaths : files[p] = files0[p]

\* C4 witness: a preview that recovered a database into a temporary file and
\* ended with its counts
C4_PreviewRecoveredAndCounted ==
  pc = "done" /\ ok /\ dbTemps # {}

\* C5 (SpecNK): the watch-history merge is idempotent: a second application of
\* merge_watch_history_and_settings with the same old and new to the same
\* output reports zero views added and leaves metadata_item_views unchanged.
C5_ViewsIdempotent ==
  [][(nkRuns >= 1 /\ nkRuns' = nkRuns + 1)
       => (views_added' = 0 /\ outViews' = outViews)]_vars

\* C6 (SpecNK): the settings merge is convergent: after the merge (and after a
\* re-run), for every settings key of new whose guid is in old, output holds
\* one settings row for that key, and it is new's row, whatever output held
\* for the key before.
C6_SettingsConverge ==
  (nkRuns >= 1 /\ table_exists(oldMeta) /\ table_exists(newSettings)
     /\ table_exists(outSettings) /\ KeysDistinct(newSettings.rows))
  => \A i \in 1..Len(newSettings.rows) :
       LET r == newSettings.rows[i]
           same == {e \in outSettings.rows : e.acct = r.acct /\ e.guid = r.guid}
       IN ResolvesInOld(GuidToIdOld(oldMeta), r.guid)
            => (Cardinality(same) = 1 /\ \A e \in same : e.val = r.val)

\* the rows merge_new_library_items has written to output
Imported == {r \in outMeta : r.src # NoId}

\* C7 (SpecItems): when old and new share no guid, the item import adds to
\* output exactly as many metadata_items rows as new has guids absent from
\* old.
C7_AddsEveryNewGuid ==
  (tpc \in {"done", "raised"} /\ Guids(oldMeta) \cap Guids(newMeta) = {})
  => Cardinality(Imported) = Cardinality(Guids(newMeta) \ Guids(oldMeta))

\* the statements SQLite finds in the whole script
ScriptStatements == SqlStatements(Flatten(script))

\* the script is a sequence of complete statements and nothing else
ScriptOfStatements ==
  \A k \in 1..Len(ScriptStatements) :
    /\ ScriptStatements[k].content /\ ~ScriptStatements[k].open
    /\ ~ScriptStatements[k].viol

WellFormedCount == Cardinality({k \in 1..Len(ScriptStatements) : ~ScriptStatements[k].bad})
InvalidCount == Cardinality({k \in 1..Len(ScriptStatements) : ScriptStatements[k].bad})

\* C9 (SpecImport): for a script of K well-formed statements and M statements
\* with an invalid literal, in any order, _import_sql_skipping_errors ends
\* with executed = K and skipped = M.
C9_ExecutedAndSkipped ==
  (ipc \in {"done", "raised"} /\ ScriptOfStatements)
  => (ipc = "done" /\ executed = WellFormedCount /\ skipped = InvalidCount)

\* the text ends inside a quoted literal, as SQLite reads it
EndsInsideLiteral(s) ==
  LET p == SqlStatements(s) IN p # <<>> /\ p[Len(p)].open

\* C10 (SpecImport): a semicolon inside a single- or double-quoted literal
\* never ends a statement: wherever the importer cuts the script to hand a
\* statement to execute, the script up to the cut does not end inside a
\* literal (literals spanning lines and doubled-quote escapes included).
C10_NeverCutInLiteral ==
  \A k \in 1..Len(execLog) :
    ~execLog[k].atEnd
      => ~EndsInsideLiteral(Flatten(SubSeq(script, 1, execLog[k].upto)))

\* C11 (SpecImport): a statement whose execution fails never aborts the
\* import: whatever the error, the importer is not left by an exception, and
\* the skip counter counts every statement whose execution failed.
C11_FailureNeverAborts ==
  /\ ipc # "raised"
  /\ skipped = Cardinality({k \in 1..Len(execLog) : execLog[k].outcome # "ok"})

\* a row of new's watch history or settings whose guid no item of old has
OnlyInNew(r) == r.guid \notin Guids(oldMeta)

\* C12 (SpecFull): in the merge proper the natural-key merge has completed
\* before the item import starts, and no step ever writes into output a
\* watch-history or settings row whose guid exists only in new, also when
\* merge_new_items is set and the item with that guid is among those imported.
C12_NaturalKeyBeforeItems ==
  /\ [](tpc # "wait" => nkRuns = 1)
  /\ [][/\ \A r \in outViews'.rows \ outViews.rows : ~OnlyInNew(r)
        /\ \A r \in outSettings'.rows \ outSettings.rows : ~OnlyInNew(r)]_vars

\* C12 witness: new holds watch history for its own item n1, the natural-key
\* merge has added a row for g1, and the import of n1 was then attempted
C12_OnlyInNewDropped ==
  /\ merge_new_items /\ tpc \in {"done", "raised"} /\ views_added >= 1
  /\ \E i \in 1..Len(newViews.rows) : newViews.rows[i].guid = "n1"
  /\ \E k \in 1..Len(to_add) : to_add[k].guid = "n1"
  /\ \A r \in outViews.rows : r.guid # "n1"

\* C13 (SpecPreview): a preview makes at most two count attempts: the first
\* count is never entered again once left; the second is entered only after
\* both recoveries succeeded and both recovered databases opened; and the
\* second attempt, failing or not, ends the call with a result, without any
\* further recovery, temporary file or retry.
C13_CountRetriedOnce ==
  /\ [](pc = "p_count2" =>
          /\ r_ret
          /\ old_conn = Connected(recovered_old_path) /\ files[recovered_old_path] \in {"DB", "DB0"}
          /\ new_conn = Connected(recovered_path) /\ files[recovered_path] \in {"DB", "DB0"})
  /\ [][/\ (pc' = "p_count1" /\ pc # "p_count1") => pc \in {"p_open_new", "p_new_recovered"}
        /\ (pc' = "p_count2" /\ pc # "p_count2") => pc = "p_retry_new"
        /\ (pc = "p_count2" /\ pc' # pc) =>
             (pc' = "done" /\ ~raised' /\ nextTmp' = nextTmp /\ rpc' = "idle")]_vars

\* C13 witness: both inputs opened directly, the first count failed, both
\* recoveries succeeded, and the second count failed too: the call has ended
\* with a failure result
C13_SecondCountFailed ==
  /\ pc = "done" /\ ~ok /\ ~raised
  /\ files0["old"] \in canOpen /\ files0["new"] \in canOpen
  /\ recovered_old_path # "" /\ old_conn = Closed(Connected(recovered_old_path))
  /\ recovered_path # "" /\ new_conn = Closed(Connected(recovered_path))

C15_OpenedMeansQueryable ==
  \A c \in {old_conn, new_conn} :
    (c.open /\ c.path \in {"old", "new"} /\ files[c.path] = files0[c.path])
      => files[c.path] \in canQuery

\* C16 (SpecMerge): when old_path or new_path is not an existing file, the
\* call returns failure before doing any work: no recovery is run, no
\* temporary file is created, and no file, the output included, is created
\* or modified.
C16_MissingInputNoWork ==
  (files0["old"] = "none" \/ files0["new"] = "none")
  => /\ pc \in {"m_start", "p_start", "done"}
     /\ pc = "done" => (~ok /\ ~raised)
     /\ files = files0 /\ nextTmp = 1 /\ dbTemps = {} /\ rpc = "idle"
     /\ IsNone(old_conn) /\ IsNone(new_conn) /\ IsNone(out_conn)

\* C16 witness: a call with new_path missing has returned
C16_MissingInputReturned ==
  pc = "done" /\ files0["old"] # "none" /\ files0["new"] = "none"

\* C17 (SpecMerge): recover_db returns success only if at least one
\* statement of the salvaged script was imported into the rebuilt database:
\* a recovery that has returned True has not built a database from a script
\* without an importable statement.
C17_NothingImportedFails ==
  (rpc = "idle" /\ r_ret /\ r_out # "") => files[r_out] # "DB0"

\* C18 as stated (SpecImport): the importer reports success if and only if
\* executed > 0 when it stops, whether it stops at the end of input or on a
\* read error part-way through the script.
C18_SuccessIffExecuted ==
  ipc \in {"done", "failed"} => (iresult <=> executed > 0)

\* C18 amended (SpecImport): when the importer stops at the end of input it
\* reports success if and only if executed > 0; when it stops on a read
\* error it reports failure, whatever it had executed.
C18_SuccessIffExecutedAtEnd ==
  /\ ipc = "done" => (iresult <=> executed > 0)
  /\ ipc = "failed" => ~iresult

\* C18 witness: a read error after a statement had been executed
C18_ReadErrorAfterExecuting ==
  ipc = "failed" /\ executed > 0

\* how many rows of a table of new carry the guid of an item of old
CountInOld(q) == Cardinality({i \in 1..Len(q) : q[i].guid \in Guids(oldMeta)})

\* C19 (SpecNK): the natural-key merge writes a watch-history or settings row
\* into output only if the row's guid is the guid of an item of old; the rows
\* of new whose guid is null, empty or absent from old are dropped and are
\* not counted in views_added or settings_added.
C19_OnlyGuidsOfOld ==
  [][(nkRuns' = nkRuns + 1) =>
       /\ \A r \in outViews'.rows \ outViews.rows : r.guid \in Guids(oldMeta)
       /\ \A r \in outSettings'.rows \ outSettings.rows : r.guid \in Guids(oldMeta)
       /\ views_added' <= CountInOld(newViews.rows)
       /\ settings_added' <= CountInOld(newSettings.rows)]_vars

\* C19 witness: new held a watch-history row and a settings row for an item
\* of old and one of each whose guid is no guid of old; one of each was
\* written
C19_RowsDropped ==
  /\ nkRuns = 1 /\ views_added = 1 /\ settings_added = 1
  /\ Len(newViews.rows) = 2 /\ CountInOld(newViews.rows) = 1
  /\ Len(newSettings.rows) = 2 /\ CountInOld(newSettings.rows) = 1

\* C20 (SpecMerge): nothing old held is lost: output holds every row of old
\* after a merge that succeeds, so the merge was applied to a copy that held
\* them, never to a database rebuilt without one statement of old's script
\* ("DB0", which holds no row at all).
C20_OutputKeepsOld ==
  [][(pc = "m_merge" /\ pc' = "done" /\ ok' /\ ~raised')
       => files[output_path] # "DB0"]_vars

\* the part of C20 about the merge proper (SpecFull): a step of the merge
\* neither deletes nor rewrites a row of output's metadata_items,
\* metadata_item_views, media_items, media_parts or media_streams
MergeOnlyAdds ==
  [][/\ outMeta \subseteq outMeta' /\ outViews.rows \subseteq outViews'.rows
     /\ outMedia.media_items \subseteq outMedia'.media_items
     /\ outMedia.media_parts \subseteq outMedia'.media_parts
     /\ outMedia.media_streams \subseteq outMedia'.media_streams]_vars

\* C21 (SpecItems): the new-item count preview reports with merge_new_items
\* set equals the number of metadata_items rows the item import of the full
\* merge adds to output for the same old and new.
C21_PreviewCountIsImported ==
  (tpc \in {"done", "raised"})
    => Cardinality(Imported) = NewMetadataItemsToAdd(newMeta, oldMeta)

\* C22 (SpecItems): the value the item import returns is the number of
\* metadata_items rows it inserted into output in that run; candidates
\* skipped for their library section or left over by the orphan/cycle guard
\* are not counted.
C22_ReturnsRowsInserted ==
  (tpc = "done") => meta_added = Cardinality(Imported)

\* request q was admitted: its handler set the status of its kind to "running"
Admitted(q) == req[q].pc \in {"spawn", "accepted", "error"}

\* the thread of q has set the status of its kind to "done"
JobOver(q) ==
  /\ job[q].pc \in {"reset", "close", "end"}
  /\ ~(req[q].kind = "run" /\ job[q].raised)

\* C23 (SpecApp): at most one job, merge or compare, has the status running;
\* a request that finds either job running is rejected and changes no job
\* state; a request is admitted only when every request admitted before it
\* has had its status set to done, so no two requests are in at once.
C23_OneJobAtATime ==
  /\ [](~(state.status = "running" /\ compare_state.status = "running"))
  /\ [][\A r \in Requests :
          /\ (req[r].pc = "check" /\ req'[r].pc # "check" /\ Busy)
               => /\ req'[r].pc = "rejected"
                  /\ state' = state /\ compare_state' = compare_state
                  /\ job' = job
          /\ (req[r].pc = "check" /\ Admitted(r)')
               => \A q \in Requests \ {r} : Admitted(q) => JobOver(q)]_vars

\* C23 witness: a request was rejected while the job of another was in the
\* engine
C23_RejectedWhileRunning ==
  \E r, q \in Requests :
    /\ req[r].pc = "rejected"
    /\ req[q].pc = "accepted" /\ job[q].pc = "engine"

\* whether following parent_id from candidate id, through candidates only,
\* arrives at target within n steps
RECURSIVE ParentChainReaches(_, _, _, _)
ParentChainReaches(cands, id, target, n) ==
  IF n = 0 \/ id \notin NewMetaIds(cands) THEN FALSE
  ELSE LET p == (CHOOSE k \in 1..Len(cands) : cands[k].id = id)
           parent == cands[p].parent
       IN parent = target \/ ParentChainReaches(cands, parent, target, n - 1)

\* the candidate lies on a cycle of parent_id references within the candidates
OnParentCycle(cands, id) == ParentChainReaches(cands, id, id, Len(cands))

\* C25 (SpecItemsLive): the pass loop of the item import terminates for every
\* candidate set, sets with a parent cycle or an orphan included; it stops
\* after the first pass that made no progress; a candidate on a parent cycle
\* is never taken up, hence never inserted.
C25_PassLoopTerminates ==
  /\ <>(tpc \in {"done", "raised"})
  /\ [][(tpc = "for" /\ ti > Len(to_add) /\ progress = 0) => tpc' = "finish"]_vars
  /\ [](/\ \A k \in 1..Len(to_add) :
             OnParentCycle(to_add, to_add[k].id) => to_add[k].id \notin added
        /\ \A r \in Imported : ~OnParentCycle(to_add, r.src))

\* C25 witness: the import has returned for a candidate set that holds a
\* parent cycle
C25_ReturnedWithCycle ==
  /\ tpc = "done"
  /\ \E k \in 1..Len(to_add) : OnParentCycle(to_add, to_add[k].id)

\* the candidate names a library section old does not have
SectionMissing(r) == r.section # NoId /\ r.section \notin oldSections

\* C26 (SpecItems): a candidate whose library_section_id matches no library
\* section of old is never inserted into output, and it is considered at
\* most once: taking it up puts it into "added" without an INSERT, and a
\* candidate in "added" is passed over from then on.
C26_MissingSectionSkippedOnce ==
  /\ [](\A r \in Imported : \A k \in 1..Len(to_add) :
          to_add[k].id = r.src => ~SectionMissing(to_add[k]))
  /\ [][(tpc = "for" /\ ti <= Len(to_add)) =>
          /\ (SectionMissing(to_add[ti]) /\ to_add[ti].id \in added' \ added)
               => (outMeta' = outMeta /\ progress' = progress /\ tpc' = "for")
          /\ (SectionMissing(to_add[ti]) /\ to_add[ti].id \in added)
               => (added' = added /\ outMeta' = outMeta /\ progress' = progress
                   /\ tpc' = "for")]_vars

\* C26 witness: the import has returned after it skipped a candidate for its
\* library section
C26_SkippedForSection ==
  /\ tpc = "done"
  /\ \E k \in 1..Len(to_add) : SectionMissing(to_add[k]) /\ to_add[k].id \in added

\* the rows of an output table the import wrote, and those it found
ImportedRows(rows) == {r \in rows : r.src # NoId}
FoundRows(rows) == {r \in rows : r.src = NoId}

\* every imported row of the table has an id above those found there, and no
\* two imported rows share an id
FreshIds(rows) ==
  /\ \A r \in ImportedRows(rows) : r.id > MaxOf({q.id : q \in FoundRows(rows)})
  /\ \A r, q \in ImportedRows(rows) : r.id = q.id => r = q

\* C27 (SpecItems): every id the item import gives to a row (metadata_items,
\* media_items, media_parts, media_streams) is above the maximum id the table
\* of output had before the import, and no two imported rows of one table
\* get the same id, so the rows output had are all still there.
C27_FreshIds ==
  /\ FreshIds(outMeta)
  /\ \A id \in DOMAIN new_meta_id_to_old :
       /\ new_meta_id_to_old[id] > MaxOf(preIds)
       /\ \A other \in DOMAIN new_meta_id_to_old :
            new_meta_id_to_old[id] = new_meta_id_to_old[other] => id = other
  /\ FreshIds(outMedia.media_items)
  /\ FreshIds(outMedia.media_parts)
  /\ FreshIds(outMedia.media_streams)
  /\ FoundRows(outMedia.media_items) = OldMedia.media_items
  /\ FoundRows(outMedia.media_parts) = OldMedia.media_parts
  /\ FoundRows(outMedia.media_streams) = OldMedia.media_streams

\* C27 witness: the import has returned after copying several rows into each
\* media table
C27_MediaRowsCopied ==
  /\ tpc = "done"
  /\ Cardinality(ImportedRows(outMedia.media_items)) >= 2
  /\ Cardinality(ImportedRows(outMedia.media_parts)) >= 2
  /\ Cardinality(ImportedRows(outMedia.media_streams)) >= 2

\* C28 (SpecItems): a media item of new is copied into output only if the
\* item it refers to was inserted into output in this run, with its
\* reference rewritten to that item's fresh id; parts and streams are copied
\* only for media items copied in this run, with their reference rewritten:
\* no copied media row refers to an id that output does not hold.
C28_MediaRefersToImported ==
  /\ \A m \in ImportedRows(outMedia.media_items) : \E r \in Imported : r.id = m.meta
  /\ \A c \in ImportedRows(outMedia.media_parts) \cup ImportedRows(outMedia.media_streams) :
       \E m \in ImportedRows(outMedia.media_items) : m.id = c.media

\* C29 (SpecImport): a doubled quote inside a literal does not end the
\* literal: once the text the importer holds consists of complete literals
\* (as SQLite reads it, 'a''b' being one literal), its scanner is outside
\* every literal, so that the next semicolon ends the statement.
C29_OutsideAfterLiteral ==
  (ipc = "reading" /\ ~EndsInsideLiteral(buffer))
    => ScanQuotes(buffer, 1, FALSE, FALSE) = <<FALSE, FALSE>>

\* C30 (SpecImport): every semicolon outside a literal ends exactly one
\* statement: a line that holds several complete statements leads to one
\* execution for each, so that no text handed to execute that was cut from a
\* single line of the script holds more than one statement.
C30_OneStatementPerExecution ==
  \A k \in 1..Len(execLog) :
    execLog[k].text = Strip(script[execLog[k].upto])
      => Len(SqlStatements(execLog[k].text)) <= 1

\* C31 (SpecMerge): whenever the bulk import of the salvaged script fails (the
\* sqlite3 shell ends with a non-zero status), recover_db runs the
\* statement-skipping importer on the script before it reports failure: a
\* recovery that failed at the rebuild failed in the importer too.
C31_SkippingImporterBeforeFailure ==
  (rpc = "idle" /\ ~r_ret /\ r_build \in {"failed", "skip_none", "skip_raised"})
    => r_build \in {"skip_none", "skip_raised"}

\* C32 (SpecPreview): when preview succeeds after the retry, the statistics it
\* returns are the counts of the two recovered databases alone: what the
\* failed first count had added before its read error is not in them.
C32_RetryCountsAlone ==
  (pc = "done" /\ ok /\ retry_stats.retried) => stats = retry_stats.stats

\* C33 (SpecPreview): preview_merge always ends by returning its (ok, error,
\* stats) triple and never by raising; in particular, when the retry finds
\* that a recovered database does not open, the call returns the failure
\* triple.
C33_PreviewAlwaysReturns ==
  pc = "done" => ~raised

\* the job state of the kind of request r
JobStateOf(r) == IF req[r].kind = "run" THEN state ELSE compare_state

\* C34 (SpecApp): every progress line a running job emits reaches that job's
\* own log: while the engine call of a job runs, the process-wide log callback
\* is the one set for that job and appends to that job's log, whatever a
\* finishing job's thread does meanwhile.
C34_LinesReachOwnLog ==
  /\ misrouted = {}
  /\ \A r \in Requests :
       job[r].pc = "engine"
         => (log_callback = CallbackOf(req[r].kind) /\ LogOf(log_callback) = r)

\* C35 (SpecApp): the log file opened for a job is closed only by that job's
\* own thread: no thread closes or clears the log file another job has
\* opened, and while the engine call of a job runs, the file the job's handler
\* opened is still under the log_file key.
C35_OwnLogFileOnly ==
  /\ closedOther = {}
  /\ \A r \in Requests :
       job[r].pc = "engine" => JobStateOf(r).log_file \in {0, r}

\* the status says that job r is running
JobRunning(r) == JobStateOf(r).job = r /\ JobStateOf(r).status = "running"

\* C38 (SpecAppLive): every accepted job eventually leaves the status
\* "running": once its engine call has ended, by returning or by raising, the
\* status of the job becomes "done", so that requests are accepted again.
C38_JobLeavesRunning ==
  \A r \in Requests : (req[r].pc = "accepted") ~> ~JobRunning(r)

\* C37 (SpecOrder): what the item import inserts does not depend on the order
\* in which new returns its rows: run on the same old and on a new that holds
\* the same items in another order, it inserts the same candidates, and when
\* it skips every candidate in one order (no INSERT is executed, the import
\* returns) it skips every candidate in the other, and the same ones for
\* their library section.
C37_OrderIndependent ==
  (order_run.n = 2 /\ tpc \in {"done", "raised"})
    => /\ {r.src : r \in Imported} = order_run.inserted
       /\ (TakenUp = {}) <=> (order_run.taken = {})
       /\ (TakenUp = {}) => SkippedForSection = order_run.skipped

\* C39 (SpecCalls): every database connection run_merge or preview_merge
\* opened (old, new, output) is closed when the call has ended, on every exit
\* path.
C39_ConnectionsClosed ==
  pc = "done" => (~old_conn.open /\ ~new_conn.open /\ ~out_conn.open)

\* the script holds nothing but comment lines (starting with --, without a
\* semicolon) and lines that are one statement without a quote
CommentsAndStatements ==
  \A k \in 1..Len(script) :
    script[k] \in {<<OKCH, SEMI, NL>>, <<BADCH, SEMI, NL>>, <<DASH, DASH, OKCH, NL>>}

\* C40 (SpecImport): a comment line never makes the importer lose a
\* statement: for a script of comment lines and one-line statements, the
\* statement after a comment line is executed and counted, and executed +
\* skipped is the number of statements of the script.
C40_CommentLosesNothing ==
  (ipc = "done" /\ CommentsAndStatements)
    => executed + skipped = Len(ScriptStatements)

====
